---- MODULE Spec2Model ----
(***************************************************************************)
(* Model of the frame pipeline and the two session trackers of             *)
(* LicensePlateDetector (src/src/detection/models.py).                     *)
(*                                                                         *)
(* A Python string is a sequence of one-character strings; a dict is a     *)
(* function whose DOMAIN is its key set; a list is a sequence.             *)
(* A character box is [cls, x1]; a plate box is the list of character      *)
(* boxes the character model returns for its crop; a frame is the list of  *)
(* plate boxes the plate model returns for it.                             *)
(***************************************************************************)
EXTENDS Integers, Sequences, FiniteSets, TLC

(* ---------------- bounds of the model ---------------- *)
MaxFrames == 5
MaxSkip == 2
MaxTimeout == 2
MaxLiveFrames == 3

(* ---------------- helpers for lists and dicts ---------------- *)
Range(s) == {s[i] : i \in 1..Len(s)}

Front(s) == SubSeq(s, 1, Len(s) - 1)

Last(s) == s[Len(s)]

\* dict.get(key, 0)
Get(d, key) == IF key \in DOMAIN d THEN d[key] ELSE 0

EmptyDict == [k \in {} |-> 0]

(* ---------------- __init__ ---------------- *)
character_map ==
    << "0", "1", "2", "3", "4", "5", "6", "7", "8", "9",
       "A", "B", "C", "D", "E", "F", "G", "H", "I", "J", "K", "L", "M",
       "N", "O", "P", "Q", "R", "S", "T", "U", "V", "W", "X", "Y", "Z" >>

Digits == {"0", "1", "2", "3", "4", "5", "6", "7", "8", "9"}

UpperLetters == {"A", "B", "C", "D", "E", "F", "G", "H", "I", "J", "K", "L", "M",
                 "N", "O", "P", "Q", "R", "S", "T", "U", "V", "W", "X", "Y", "Z"}

LowerLetters == {"a", "b", "c", "d", "e", "f", "g", "h", "i", "j", "k", "l", "m",
                 "n", "o", "p", "q", "r", "s", "t", "u", "v", "w", "x", "y", "z"}

\* the atoms of the regular expression: \d and [A-Za-z]
ReDigit == Digits

ReAlpha == UpperLetters \cup LowerLetters

\* the four alternatives of plate_regex, each a list of <<atom, repeat count>>
plate_regex ==
    << << <<ReDigit, 2>>, <<ReAlpha, 1>>, <<ReDigit, 3>>, <<ReAlpha, 2>> >>,
       << <<ReAlpha, 1>>, <<ReDigit, 4>>, <<ReAlpha, 2>> >>,
       << <<ReAlpha, 2>>, <<ReDigit, 4>>, <<ReAlpha, 2>> >>,
       << <<ReAlpha, 2>>, <<ReDigit, 5>> >> >>

\* text[from..] starts with n characters of the atom
RepeatMatches(text, from, atom, n) ==
    /\ from + n - 1 <= Len(text)
    /\ \A i \in from..(from + n - 1) : text[i] \in atom

RECURSIVE AltMatchEnd(_, _, _)
\* position after matching the items of one alternative from `from`, 0 if no match
AltMatchEnd(text, from, items) ==
    IF items = << >> THEN from
    ELSE IF RepeatMatches(text, from, Head(items)[1], Head(items)[2])
         THEN AltMatchEnd(text, from + Head(items)[2], Tail(items))
         ELSE 0

\* fullmatch that accepts a text when an alternative matches a prefix of it
fullmatch_Prefix(text) ==
    \E a \in 1..Len(plate_regex) : AltMatchEnd(text, 1, plate_regex[a]) # 0

\* plate_regex.fullmatch(text): some alternative consumes the whole text
fullmatch(text) ==
    \E a \in 1..Len(plate_regex) : AltMatchEnd(text, 1, plate_regex[a]) = Len(text) + 1

is_valid_plate(plate_text) == fullmatch(plate_text)

(* ---------------- _detect_plates_in_frame ---------------- *)
RECURSIVE InsertByX1(_, _)
\* insert c behind every element whose x1 is <= c.x1 (list.sort is stable)
InsertByX1(sorted, c) ==
    IF sorted = << >> THEN << c >>
    ELSE IF Last(sorted).x1 <= c.x1 THEN Append(sorted, c)
         ELSE Append(InsertByX1(Front(sorted), c), Last(sorted))

RECURSIVE SortByX1(_)
SortByX1(chars) ==
    IF chars = << >> THEN << >>
    ELSE InsertByX1(SortByX1(Front(chars)), Last(chars))

\* the characters joined in the order the model returned them
license_text_AsReturned(box) == [i \in 1..Len(box) |-> character_map[box[i].cls + 1]]

\* "".join(character_map[cls] for the characters sorted by x1)
license_text(box) ==
    LET sorted == SortByX1(box)
    IN  [i \in 1..Len(sorted) |-> character_map[sorted[i].cls + 1]]

RECURSIVE detect_plates_in_frame(_)
\* the list of the valid plate texts of the plate boxes of the frame, in box order
detect_plates_in_frame(frame) ==
    IF frame = << >> THEN << >>
    ELSE LET rest == detect_plates_in_frame(Front(frame))
             text == license_text(Last(frame))
         IN  IF is_valid_plate(text) THEN Append(rest, text) ELSE rest

\* adjusted_confidence computed once, from the threshold of __init__
adjusted_confidence_AtInit(threshold) == 525

\* adjusted_confidence = max(0.1, self.confidence_threshold * 0.7), in 1/1000,
\* for a threshold in percent
adjusted_confidence(threshold) == IF 7 * threshold > 100 THEN 7 * threshold ELSE 100

(* ---------------- the frames a source can deliver ---------------- *)
\* character boxes of a crop, in the order the character model returns them
Box_01A123BC ==
    << [cls |-> 10, x1 |-> 30], [cls |-> 0, x1 |-> 10], [cls |-> 1, x1 |-> 20],
       [cls |-> 12, x1 |-> 80], [cls |-> 1, x1 |-> 40], [cls |-> 2, x1 |-> 50],
       [cls |-> 3, x1 |-> 60], [cls |-> 11, x1 |-> 70] >>

Box_A1234BC ==
    << [cls |-> 10, x1 |-> 5], [cls |-> 1, x1 |-> 15], [cls |-> 2, x1 |-> 25],
       [cls |-> 3, x1 |-> 35], [cls |-> 4, x1 |-> 45], [cls |-> 11, x1 |-> 55],
       [cls |-> 12, x1 |-> 65] >>

Box_AA1234BB ==
    << [cls |-> 11, x1 |-> 70], [cls |-> 11, x1 |-> 60], [cls |-> 4, x1 |-> 50],
       [cls |-> 3, x1 |-> 40], [cls |-> 2, x1 |-> 30], [cls |-> 1, x1 |-> 20],
       [cls |-> 10, x1 |-> 10], [cls |-> 10, x1 |-> 0] >>

Box_TP12345 ==
    << [cls |-> 29, x1 |-> 1], [cls |-> 25, x1 |-> 2], [cls |-> 1, x1 |-> 3],
       [cls |-> 2, x1 |-> 4], [cls |-> 3, x1 |-> 5], [cls |-> 4, x1 |-> 6],
       [cls |-> 5, x1 |-> 7] >>

\* candidates that match no shape
Box_AB1 == << [cls |-> 1, x1 |-> 30], [cls |-> 10, x1 |-> 10], [cls |-> 11, x1 |-> 20] >>

Box_NoChars == << >>

Box_01A123BCD == Box_01A123BC \o << [cls |-> 13, x1 |-> 90] >>

Box_1A123BC == Tail(SortByX1(Box_01A123BC))

FramePool ==
    { << >>,
      << Box_01A123BC >>,
      << Box_A1234BC >>,
      << Box_01A123BC, Box_AB1, Box_AA1234BB, Box_TP12345, Box_01A123BC >>,
      << Box_NoChars, Box_01A123BCD, Box_AB1, Box_1A123BC >> }

\* probed frame rates, in quarter frames per second (0.25, 0.5 and 101 fps);
\* ProbeRange has every rate from -1 to 102 fps
FpsProbes == {1, 2, 404}

\* duration_seconds of a camera run
Durations == {10, 14}

\* every candidate text the frames can produce, valid or not
CandidateTexts == UNION { {license_text(f[i]) : i \in 1..Len(f)} : f \in FramePool }

(* ---------------- state ---------------- *)
VARIABLES
    process_every_n_frames,   \* self.process_every_n_frames
    session_timeout_frames,   \* self.session_timeout_frames
    pc,                       \* "idle", "video" (in detect_from_video's loop),
                              \* "camera" (in detect_from_camera's loop), "returned"
    mode,                     \* which method runs or ran: "none", "video", "camera"
    frame_count,
    final_counts,
    current_session_plates,   \* detect_from_video
    frames_without_plate,     \* detect_from_video
    active_sessions,          \* detect_from_camera
    probed_fps,               \* detect_from_camera: what cap.get(CAP_PROP_FPS) returned,
                              \* in quarter frames per second
    fps,                      \* detect_from_camera, in quarter frames per second
    duration_seconds,         \* detect_from_camera
    total_frames,             \* detect_from_camera
    rotation,                 \* detect_from_camera's parameter rotation_setting
    rotated,                  \* the cv2.rotate calls of the run:
                              \* [index |-> the frame read, code |-> the rotateCode,
                              \* count |-> frame_count at the time of the call]
    processed,                \* the calls of _detect_plates_in_frame of the run that
                              \* returned: [index |-> frame_count, frame |-> its
                              \* argument, plates |-> the list it returned,
                              \* conf |-> adjusted_confidence of the call (in 1/1000),
                              \* rotation |-> the rotation applied to the frame]
    confidence_threshold,     \* self.confidence_threshold, in percent
    rotation_setting,         \* self.detector.rotation_setting
    camera_duration,          \* PlateDetectionService.camera_duration
    result,                   \* what the last PlateDetectionService call returned
    storage,                  \* the persisted plate counters (StorageManager's file)
    running,                  \* the coroutine the event loop is executing, or "none"
    call_pc,                  \* where each of two processing calls is
    detected,                 \* each call's detected_counts
    pending,                  \* each call's add_plate calls still to make, in order
    loaded,                   \* add_plate's local data of each call, or NotLoaded
    prior,                    \* the persisted counters before the two calls
    detect_pc,                \* where _detect_plates_in_frame is: "idle", "boxes"
                              \* (in the loop over the plate boxes), "returned"
    adjusted,                 \* its local adjusted_confidence, in 1/1000
    license_plates,           \* license_plates[0].boxes, as the plate model returned
                              \* them: [conf |-> in 1/1000, chars |-> the boxes the
                              \* character model returns for the crop]
    model_calls,              \* the model invocations of the call, in order:
                              \* [model, conf |-> the threshold passed, box |-> the
                              \* plate box of the crop, 0 for the frame]
    detected_plates_text,     \* its local detected_plates_text
    candidates,               \* the license_text of each plate box handled so far
    fsm_state,                \* the chat's FSM state: "none" or "waiting_for_video"
    answers,                  \* what the last handler call has answered so far
    handler_pc,               \* where process_video is: "idle", "download", "processing"
    temp_file,                \* the suffix of process_video's temporary file, "" if none
    models_loaded,            \* self._models_loaded
    is_loading,               \* self._is_loading
    load_lock,                \* the thread that holds self._load_lock, or "free"
    thread_pc,                \* where each thread is in the model loading code
    load_outcome              \* how the last _sync_load_dependencies of each thread
                              \* ended: "none", "ok" (line 125), "error" (line 127)

vars == << process_every_n_frames, session_timeout_frames, pc, mode, frame_count,
           final_counts, current_session_plates, frames_without_plate,
           active_sessions, probed_fps, fps, duration_seconds, total_frames, rotation, rotated,
           processed,
           confidence_threshold, rotation_setting, camera_duration, result, storage,
           running, call_pc, detected, pending, loaded, prior,
           detect_pc, adjusted, license_plates, model_calls, detected_plates_text,
           candidates, fsm_state, answers, handler_pc, temp_file,
           models_loaded, is_loading, load_lock, thread_pc, load_outcome >>

config == << process_every_n_frames, session_timeout_frames >>

video_locals == << current_session_plates, frames_without_plate >>

camera_locals == << active_sessions, probed_fps, fps, duration_seconds, total_frames, rotation,
                    rotated >>

service_config == << confidence_threshold, rotation_setting, camera_duration >>

loader == << models_loaded, is_loading, load_lock, thread_pc, load_outcome >>

inflight == << running, call_pc, detected, pending, loaded, prior >>

chat == << fsm_state, answers, handler_pc, temp_file >>

detect_locals == << detect_pc, adjusted, license_plates, model_calls, detected_plates_text,
                    candidates >>

run == << pc, mode, frame_count, final_counts, video_locals, camera_locals, processed >>

\* the threads that can be in the model loading code: two detection calls
\* and two background loaders
Callers == {"call1", "call2"}

Background == {"bg1", "bg2"}

Threads == Callers \cup Background

NoResult == [op |-> "none", success |-> FALSE, plates |-> EmptyDict]

NotLoaded == [none |-> TRUE]

\* no processing call is in flight
NoCalls ==
    /\ running = "none"
    /\ call_pc = [c \in Callers |-> "idle"]
    /\ detected = [c \in Callers |-> EmptyDict]
    /\ pending = [c \in Callers |-> << >>]
    /\ loaded = [c \in Callers |-> NotLoaded]

\* the chat is in no FSM state and no handler is running
NoChat ==
    /\ fsm_state = "none"
    /\ answers = << >>
    /\ handler_pc = "idle"
    /\ temp_file = ""

\* _detect_plates_in_frame is not running
NoDetection ==
    /\ detect_pc = "idle"
    /\ adjusted = 0
    /\ license_plates = << >>
    /\ model_calls = << >>
    /\ detected_plates_text = << >>
    /\ candidates = << >>

\* LicensePlateDetector.__init__ and PlateDetectionService.__init__ without
\* saved configuration files
InitService ==
    /\ confidence_threshold = 75
    /\ rotation_setting = "off"
    /\ camera_duration = 60
    /\ result = NoResult
    /\ NoCalls
    /\ NoDetection
    /\ NoChat

\* LicensePlateDetector.__init__: nothing is loaded, nobody loads
InitLoader ==
    /\ models_loaded = FALSE
    /\ is_loading = FALSE
    /\ load_lock = "free"
    /\ thread_pc = [t \in Threads |-> "idle"]
    /\ load_outcome = [t \in Threads |-> "none"]

\* one _sync_load_dependencies has succeeded, before any setter was called
InitLoaded ==
    /\ models_loaded = TRUE
    /\ is_loading = FALSE
    /\ load_lock = "free"
    /\ thread_pc = [t \in Threads |-> "idle"]
    /\ load_outcome = [t \in Threads |-> IF t = "bg1" THEN "ok" ELSE "none"]

\* no run is active
InitRun ==
    /\ pc = "idle"
    /\ mode = "none"
    /\ frame_count = 0
    /\ final_counts = EmptyDict
    /\ current_session_plates = << >>
    /\ frames_without_plate = 0
    /\ active_sessions = EmptyDict
    /\ probed_fps = 0
    /\ fps = 0
    /\ duration_seconds = 0
    /\ total_frames = 0
    /\ rotation = "off"
    /\ rotated = << >>
    /\ processed = << >>

\* the detector after __init__ and any number of update_frame_skip /
\* update_session_timeout calls (both keep the value >= 1); no run is active
Init ==
    /\ process_every_n_frames \in 1..MaxSkip
    /\ session_timeout_frames \in 1..MaxTimeout
    /\ InitRun
    /\ InitService
    /\ InitLoaded
    /\ storage = EmptyDict
    /\ prior = storage

(* ---------------- detect_from_video ---------------- *)
\* VideoOpenFails that raises in place of returning {}
VideoOpenFails_Raises ==
    /\ pc = "idle"
    /\ pc' = "raised"
    /\ mode' = "video"
    /\ UNCHANGED << config, frame_count, final_counts, video_locals, camera_locals, processed,
                    service_config, result, storage, inflight, detect_locals, chat, loader >>

\* cap.isOpened() is false: return {}
VideoOpenFails ==
    /\ pc = "idle"
    /\ pc' = "returned"
    /\ mode' = "video"
    /\ UNCHANGED << config, frame_count, final_counts, video_locals, camera_locals, processed,
                    service_config, result, storage, inflight, detect_locals, chat, loader >>

VideoOpen ==
    /\ pc = "idle"
    /\ pc' = "video"
    /\ mode' = "video"
    /\ final_counts' = EmptyDict
    /\ current_session_plates' = << >>
    /\ frames_without_plate' = 0
    /\ frame_count' = 0
    /\ UNCHANGED << config, camera_locals, processed, service_config, result, storage, inflight, detect_locals, chat, loader >>

\* SkipFrame testing the index before it is incremented
SkipFrame_BeforeIncrement(count, every_n) == (count - 1) % every_n # 0

\* frame_count % self.process_every_n_frames != 0: continue
SkipFrame(count, every_n) == count % every_n # 0

\* SessionTimedOut with > in place of >=
SessionTimedOut_Strict(without_plate, timeout_frames, session_plates) ==
    without_plate > timeout_frames /\ session_plates # << >>

\* SessionTimedOut without the timeout: every processed frame ends the session
SessionTimedOut_NoTimeout(without_plate, timeout_frames, session_plates) ==
    session_plates # << >>

\* frames_without_plate >= self.session_timeout_frames and current_session_plates
SessionTimedOut(without_plate, timeout_frames, session_plates) ==
    without_plate >= timeout_frames /\ session_plates # << >>

\* CountSession without set(): one increment per buffered sighting
CountSession_PerSighting(counts, session_plates) ==
    [p \in DOMAIN counts \cup Range(session_plates) |->
        Get(counts, p) + Cardinality({i \in 1..Len(session_plates) : session_plates[i] = p})]

\* CountSession crediting only the first plate of the session
CountSession_FirstOnly(counts, session_plates) ==
    [p \in DOMAIN counts \cup {Head(session_plates)} |->
        IF p = Head(session_plates) THEN Get(counts, p) + 1 ELSE counts[p]]

\* for plate in list(set(session_plates)): counts[plate] = counts.get(plate, 0) + 1
CountSession(counts, session_plates) ==
    [p \in DOMAIN counts \cup Range(session_plates) |->
        IF p \in Range(session_plates) THEN Get(counts, p) + 1 ELSE counts[p]]

\* VideoAbsence that forgets to reset the counter on a sighting
VideoAbsence_NoReset(without_plate, plates_in_frame) ==
    IF plates_in_frame # << >> THEN without_plate ELSE without_plate + 1

\* frames_without_plate after the observation of one processed frame
VideoAbsence(without_plate, plates_in_frame) ==
    IF plates_in_frame # << >> THEN 0 ELSE without_plate + 1

\* VideoTrack that counts the session and keeps it in the buffer
VideoTrack_BufferKept(session_plates, without_plate, counts, plates_in_frame, timeout_frames) ==
    LET without == VideoAbsence(without_plate, plates_in_frame)
        session == session_plates \o plates_in_frame
    IN  IF SessionTimedOut(without, timeout_frames, session)
        THEN [session |-> session, without |-> without, counts |-> CountSession(counts, session)]
        ELSE [session |-> session, without |-> without, counts |-> counts]

\* lines 204-225: the tracker of detect_from_video on the observation of one
\* processed frame
VideoTrack(session_plates, without_plate, counts, plates_in_frame, timeout_frames) ==
    LET without == VideoAbsence(without_plate, plates_in_frame)
        session == session_plates \o plates_in_frame
    IN  IF SessionTimedOut(without, timeout_frames, session)
        THEN [session |-> << >>, without |-> without, counts |-> CountSession(counts, session)]
        ELSE [session |-> session, without |-> without, counts |-> counts]

\* one iteration of the read loop with ret = True, on a source that delivers
\* at most max_frames frames out of pool
VideoFrameFrom(pool, max_frames) ==
    /\ pc = "video"
    /\ frame_count < max_frames
    /\ \E frame \in pool :
         /\ frame_count' = frame_count + 1
         /\ IF SkipFrame(frame_count', process_every_n_frames)
            THEN UNCHANGED << final_counts, video_locals, processed >>
            ELSE LET plates_in_frame == detect_plates_in_frame(frame)
                     next == VideoTrack(current_session_plates, frames_without_plate,
                                        final_counts, plates_in_frame, session_timeout_frames)
                 IN  /\ processed' = Append(processed,
                            [index |-> frame_count', frame |-> frame, plates |-> plates_in_frame,
                             conf |-> adjusted_confidence(confidence_threshold),
                             rotation |-> "off"])
                     /\ frames_without_plate' = next.without
                     /\ current_session_plates' = next.session
                     /\ final_counts' = next.counts
    /\ UNCHANGED << config, pc, mode, camera_locals, service_config, result, storage, inflight, detect_locals, chat, loader >>

VideoFrame == VideoFrameFrom(FramePool, MaxFrames)

\* VideoLastSession that drops the session still open at the end
VideoLastSession_Dropped(counts, session_plates) == counts

\* the last session: if current_session_plates: count its unique plates
VideoLastSession(counts, session_plates) ==
    IF session_plates # << >> THEN CountSession(counts, session_plates) ELSE counts

\* the loop ends (ret = False or the capture is closed), the last session is
\* counted and final_counts is returned
VideoEnd ==
    /\ pc = "video"
    /\ final_counts' = VideoLastSession(final_counts, current_session_plates)
    /\ pc' = "returned"
    /\ UNCHANGED << config, mode, frame_count, video_locals, camera_locals, processed,
                    service_config, result, storage, inflight, detect_locals, chat, loader >>

(* ---------------- detect_from_camera ---------------- *)
\* the replacement without the upper bound
ProbedFps_NoUpperBound(probe) == IF probe <= 0 THEN 120 ELSE probe

\* if fps <= 0 or fps > 100: fps = 30   (in quarter frames per second)
ProbedFps(probe) == IF probe <= 0 \/ probe > 400 THEN 120 ELSE probe

\* int(fps * duration_seconds), fps in quarter frames per second
FrameBudget(rate, duration) == (rate * duration) \div 4

CameraOpenFails ==
    /\ pc = "idle"
    /\ pc' = "returned"
    /\ mode' = "camera"
    /\ UNCHANGED << config, frame_count, final_counts, video_locals, camera_locals, processed,
                    service_config, result, storage, inflight, detect_locals, chat, loader >>

\* the rotateCode of the wrong quarter turn
rotateCode_Mirrored(setting) ==
    IF setting = "90" THEN "ROTATE_90_COUNTERCLOCKWISE"
    ELSE IF setting = "180" THEN "ROTATE_180"
    ELSE IF setting = "270" THEN "ROTATE_90_CLOCKWISE"
    ELSE "none"

\* lines 290-295: the rotateCode handed to cv2.rotate for a rotation_setting,
\* "none" when the frame is left as it is
rotateCode(setting) ==
    IF setting = "90" THEN "ROTATE_90_CLOCKWISE"
    ELSE IF setting = "180" THEN "ROTATE_180"
    ELSE IF setting = "270" THEN "ROTATE_90_COUNTERCLOCKWISE"
    ELSE "none"

\* detect_from_camera called with rotation_setting = self.detector.rotation_setting
\* (detector.py 174, 192) and a duration_seconds out of durations, on a source
\* whose probed frame rate is one of probes: what it does to the run
CameraStartWith(probes, durations) ==
    /\ pc = "idle"
    /\ \E probe \in probes, duration \in durations :
         /\ probed_fps' = probe
         /\ fps' = ProbedFps(probe)
         /\ duration_seconds' = duration
         /\ total_frames' = FrameBudget(ProbedFps(probe), duration)
    /\ rotation' = rotation_setting
    /\ rotated' = << >>
    /\ pc' = "camera"
    /\ mode' = "camera"
    /\ final_counts' = EmptyDict
    /\ active_sessions' = EmptyDict
    /\ frame_count' = 0
    /\ UNCHANGED << config, video_locals, processed, confidence_threshold, rotation_setting,
                    storage, inflight, detect_locals, chat, loader >>

\* the same on a source whose probed frame rate is one of FpsProbes
CameraStart(durations) == CameraStartWith(FpsProbes, durations)

\* the same, called with the service's configuration left as it is
CameraOpenWith(durations) ==
    /\ CameraStart(durations)
    /\ UNCHANGED << camera_duration, result >>

CameraOpen == CameraOpenWith(Durations)

\* BudgetLeft of a loop without the budget test: while cap.isOpened()
BudgetLeft_Always(count, budget) == TRUE

\* BudgetLeft with <= in place of <
BudgetLeft_Inclusive(count, budget) == count <= budget

\* while cap.isOpened() and frame_count < total_frames
BudgetLeft(count, budget) == count < budget

\* Sighted that creates the untracked plates and leaves the tracked counters
Sighted_NoReset(sessions, plates_in_frame) ==
    [p \in DOMAIN sessions \cup Range(plates_in_frame) |->
        IF p \in DOMAIN sessions THEN sessions[p] ELSE 0]

\* lines 316-321: every detected plate is tracked with counter 0
Sighted(sessions, plates_in_frame) ==
    [p \in DOMAIN sessions \cup Range(plates_in_frame) |->
        IF p \in Range(plates_in_frame) THEN 0 ELSE sessions[p]]

\* Absent with one timer for all plates: counters grow only on an empty frame
Absent_SharedTimer(sessions, plates_in_frame) ==
    [p \in DOMAIN sessions |->
        IF plates_in_frame = << >> THEN sessions[p] + 1 ELSE sessions[p]]

\* lines 325-327: the counter of every tracked plate not in the frame grows by 1
Absent(sessions, plates_in_frame) ==
    [p \in DOMAIN sessions |->
        IF p \notin Range(plates_in_frame) THEN sessions[p] + 1 ELSE sessions[p]]

\* plates_to_remove with > in place of >=
plates_to_remove_Late(sessions, plates_in_frame, timeout_frames) ==
    {p \in DOMAIN sessions : p \notin Range(plates_in_frame) /\ sessions[p] > timeout_frames}

\* lines 328-334: the plates whose session is finished in this frame
plates_to_remove(sessions, plates_in_frame, timeout_frames) ==
    {p \in DOMAIN sessions : p \notin Range(plates_in_frame) /\ sessions[p] >= timeout_frames}

\* CountPlates that forgets the closed sessions
CountPlates_Forgotten(counts, plates) == counts

\* final_counts[plate] = final_counts.get(plate, 0) + 1 for each plate of `plates`
CountPlates(counts, plates) ==
    [p \in DOMAIN counts \cup plates |-> IF p \in plates THEN Get(counts, p) + 1 ELSE counts[p]]

\* lines 337-338: del active_sessions[plate]
Remove(sessions, plates) == [p \in DOMAIN sessions \ plates |-> sessions[p]]

\* lines 315-338: the tracker of detect_from_camera on the observation of one
\* processed frame
CameraTrack(sessions, counts, plates_in_frame, timeout_frames) ==
    LET aged == Absent(Sighted(sessions, plates_in_frame), plates_in_frame)
        done == plates_to_remove(aged, plates_in_frame, timeout_frames)
    IN  [sessions |-> Remove(aged, done), counts |-> CountPlates(counts, done)]

\* one iteration of the read loop with ret = True, on a source that delivers
\* at most max_frames frames out of pool
CameraFrameFrom(pool, max_frames) ==
    /\ pc = "camera"
    /\ BudgetLeft(frame_count, total_frames)
    /\ frame_count < max_frames
    /\ \E frame \in pool :
         /\ rotated' = IF rotateCode(rotation) = "none" THEN rotated
                       ELSE Append(rotated, [index |-> frame_count + 1,
                                             code |-> rotateCode(rotation),
                                             count |-> frame_count])
         /\ frame_count' = frame_count + 1
         /\ IF SkipFrame(frame_count', process_every_n_frames)
            THEN UNCHANGED << final_counts, active_sessions, processed >>
            ELSE LET plates_in_frame == detect_plates_in_frame(frame)
                     next == CameraTrack(active_sessions, final_counts,
                                         plates_in_frame, session_timeout_frames)
                 IN  /\ processed' = Append(processed,
                            [index |-> frame_count', frame |-> frame, plates |-> plates_in_frame,
                             conf |-> adjusted_confidence(confidence_threshold),
                             rotation |-> rotation])
                     /\ active_sessions' = next.sessions
                     /\ final_counts' = next.counts
    /\ UNCHANGED << config, pc, mode, video_locals, probed_fps, fps, duration_seconds,
                    total_frames, rotation,
                    service_config, result, storage, inflight, detect_locals, chat, loader >>

CameraFrame == CameraFrameFrom(FramePool, MaxFrames)

\* CameraRemaining that completes only the sessions that are already absent
CameraRemaining_AbsentOnly(counts, sessions) ==
    CountPlates(counts, {p \in DOMAIN sessions : sessions[p] > 0})

\* lines 347-352: every remaining active session is completed
CameraRemaining(counts, sessions) == CountPlates(counts, DOMAIN sessions)

\* the loop condition fails because the budget is used up; the remaining
\* sessions are completed and final_counts is returned
CameraBudgetUsed ==
    /\ pc = "camera"
    /\ ~BudgetLeft(frame_count, total_frames)
    /\ final_counts' = CameraRemaining(final_counts, active_sessions)
    /\ pc' = "returned"
    /\ UNCHANGED << config, mode, frame_count, video_locals, camera_locals, processed,
                    service_config, result, storage, inflight, detect_locals, chat, loader >>

\* the loop ends before the budget is used up (ret = False or the capture is
\* closed); the remaining sessions are completed and final_counts is returned
CameraEnd ==
    /\ pc = "camera"
    /\ BudgetLeft(frame_count, total_frames)
    /\ final_counts' = CameraRemaining(final_counts, active_sessions)
    /\ pc' = "returned"
    /\ UNCHANGED << config, mode, frame_count, video_locals, camera_locals, processed,
                    service_config, result, storage, inflight, detect_locals, chat, loader >>

(* ---------------- specification ---------------- *)
Next ==
    \/ VideoOpenFails
    \/ VideoOpen
    \/ VideoFrame
    \/ VideoEnd
    \/ CameraOpenFails
    \/ CameraOpen
    \/ CameraFrame
    \/ CameraBudgetUsed
    \/ CameraEnd

Spec == Init /\ [][Next]_vars

(* ================= properties ================= *)
P_01A123BC == << "0", "1", "A", "1", "2", "3", "B", "C" >>

P_A1234BC == << "A", "1", "2", "3", "4", "B", "C" >>

\* the observation of every processed frame of the run, in order
Observations == [i \in 1..Len(processed) |-> processed[i].plates]

\* the texts the properties quantify over
Texts == CandidateTexts \cup DOMAIN final_counts

\* the processed frames, by position in Observations, that contain p
Sightings(obs, p) == {i \in 1..Len(obs) : p \in Range(obs[i])}

\* pairs of consecutive sightings of p
NextSightings(obs, p) ==
    {pair \in Sightings(obs, p) \X Sightings(obs, p) :
        /\ pair[1] < pair[2]
        /\ \A k \in (pair[1] + 1)..(pair[2] - 1) : k \notin Sightings(obs, p)}

\* the maximal blocks of consecutive processed frames that all contain p
Blocks(obs, p) == {i \in Sightings(obs, p) : i = 1 \/ (i - 1) \notin Sightings(obs, p)}

\* a stretch of n consecutive processed frames strictly between positions i and j
\* whose observations all satisfy Quiet
HasStretch(obs, i, j, n, Quiet(_)) ==
    \E a \in (i + 1)..(j - n) : \A k \in a..(a + n - 1) : Quiet(obs[k])

(* ---- C1 ---- *)
\* some step credits p
Credited(p) == Get(final_counts', p) # Get(final_counts, p)

\* C1: in both modes a step (one processed frame, or the end of the run) raises
\* the count of a plate by at most 1, and only for a plate of the session that
\* ends, however often the plate was sighted; so the count of p never exceeds
\* the number of blocks of consecutive processed frames that contain p.
C1_OncePerSession ==
    [][\A p \in Texts \cup DOMAIN final_counts' :
        /\ Get(final_counts', p) - Get(final_counts, p) \in {0, 1}
        /\ Credited(p) => p \in Range(current_session_plates) \cup DOMAIN active_sessions
        /\ Get(final_counts', p) <= Cardinality(Blocks(Observations', p))]_vars

\* a video run that counted 01A123BC once although three processed frames
\* contained it, one of them twice
C1_Witness ==
    /\ mode = "video" /\ pc = "returned"
    /\ Get(final_counts, P_01A123BC) = 1
    /\ Cardinality(Sightings(Observations, P_01A123BC)) >= 3
    /\ \E i \in 1..Len(processed) :
         Cardinality({j \in 1..Len(Observations[i]) : Observations[i][j] = P_01A123BC}) = 2

(* ---- C2 ---- *)
\* p is sighted and no session_timeout_frames consecutive processed frames
\* without p lie between two sightings of p
NoLongAbsence(obs, p) ==
    /\ Sightings(obs, p) # {}
    /\ \A pair \in NextSightings(obs, p) :
         ~HasStretch(obs, pair[1], pair[2], session_timeout_frames, LAMBDA o : p \notin Range(o))

\* C2: file mode: a plate that is sighted and never absent for
\* session_timeout_frames consecutive processed frames between its first and
\* last sighting has final count exactly 1.
C2_ContinuousPlateCountsOnce ==
    (mode = "video" /\ pc = "returned") =>
        \A p \in Texts : NoLongAbsence(Observations, p) => Get(final_counts, p) = 1

\* the end-to-end example [{}, {01A123BC}, {}, {}, {}], timeout 2, skip 1
C2_Witness ==
    /\ mode = "video" /\ pc = "returned"
    /\ session_timeout_frames = 2 /\ process_every_n_frames = 1
    /\ Observations = << << >>, << P_01A123BC >>, << >>, << >>, << >> >>
    /\ final_counts = (P_01A123BC :> 1)

(* ---- C3 ---- *)
\* the pairs of consecutive sightings of p separated by at least
\* session_timeout_frames consecutive processed frames without p
AbsenceGaps(obs, p) ==
    {pair \in NextSightings(obs, p) :
        HasStretch(obs, pair[1], pair[2], session_timeout_frames, LAMBDA o : p \notin Range(o))}

\* the pairs of consecutive sightings of p separated by at least
\* session_timeout_frames consecutive processed frames without any plate
EmptyGaps(obs, p) ==
    {pair \in NextSightings(obs, p) :
        HasStretch(obs, pair[1], pair[2], session_timeout_frames, LAMBDA o : o = << >>)}

\* C3 as stated: file mode: p sighted, absent from at least
\* session_timeout_frames consecutive processed frames, sighted again (two
\* appearances in total) has final count 2.
C3_AbsentThenSeenAgain ==
    (mode = "video" /\ pc = "returned") =>
        \A p \in Texts :
            Cardinality(AbsenceGaps(Observations, p)) = 1 => Get(final_counts, p) = 2

\* C3 amended: file mode: p sighted, then at least session_timeout_frames
\* consecutive processed frames with no plate at all, then p sighted again (two
\* appearances in total) has final count 2.
C3_EmptyThenSeenAgain ==
    (mode = "video" /\ pc = "returned") =>
        \A p \in Texts :
            Cardinality(EmptyGaps(Observations, p)) = 1 => Get(final_counts, p) = 2

\* the end-to-end example [{X}, {}, {X}, {}] with timeout 1
C3_Witness ==
    /\ mode = "video" /\ pc = "returned"
    /\ session_timeout_frames = 1 /\ process_every_n_frames = 1
    /\ Observations = << << P_01A123BC >>, << >>, << P_01A123BC >>, << >> >>
    /\ final_counts = (P_01A123BC :> 2)

(* ---- C4 ---- *)
\* C4: file mode: the flush that ends a dwell window raises the count of every
\* distinct plate of the window by exactly 1 (two distinct plates of one window
\* are each credited once) and changes no other count.
C4_WindowCreditsEachPlateOnce ==
    [][(mode = "video" /\ final_counts' # final_counts) =>
        /\ \A p \in Range(current_session_plates), q \in Range(current_session_plates) :
             /\ Get(final_counts', p) = Get(final_counts, p) + 1
             /\ Get(final_counts', q) = Get(final_counts, q) + 1
        /\ \A p \in (Texts \cup DOMAIN final_counts') \ Range(current_session_plates) :
             Get(final_counts', p) = Get(final_counts, p)]_vars

\* one dwell window (no empty processed frame) in which two plates were
\* sighted, one of them in more than one frame, each credited once
C4_Witness ==
    /\ mode = "video" /\ pc = "returned"
    /\ Len(processed) >= 3
    /\ \A i \in 1..Len(processed) : Observations[i] # << >>
    /\ Cardinality(Sightings(Observations, P_01A123BC)) >= 2
    /\ Sightings(Observations, P_A1234BC) # {}
    /\ \E i \in 1..Len(processed) : Observations[i] = << P_01A123BC >>
    /\ final_counts = (P_01A123BC :> 1) @@ (P_A1234BC :> 1)

(* ---- C5 ---- *)
RECURSIVE CameraFold(_, _)
\* the stream tracker run over a list of observations
CameraFold(obs, timeout_frames) ==
    IF obs = << >> THEN [sessions |-> EmptyDict, counts |-> EmptyDict]
    ELSE LET before == CameraFold(Front(obs), timeout_frames)
         IN  CameraTrack(before.sessions, before.counts, Last(obs), timeout_frames)

\* the mapping a stream run returns for a list of observations
CameraResult(obs, timeout_frames) ==
    LET end == CameraFold(obs, timeout_frames)
    IN  CameraRemaining(end.counts, end.sessions)

\* the observations with every plate other than p erased
OnlyPlate(obs, p) ==
    [i \in 1..Len(obs) |-> IF p \in Range(obs[i]) THEN << p >> ELSE << >>]

\* C5: stream mode: the final count of p is the count the tracker gives to the
\* run in which only p's sightings are kept, so it depends on nothing but the
\* sequence 'p is in processed frame i'.
C5_StreamNonInterference ==
    (mode = "camera" /\ pc = "returned") =>
        \A p \in Texts :
            Get(final_counts, p) =
                Get(CameraResult(OnlyPlate(Observations, p), session_timeout_frames), p)

\* a stream run in which another plate is sighted while 01A123BC is absent for
\* the timeout, and 01A123BC is counted twice
C5_Witness ==
    /\ mode = "camera" /\ pc = "returned"
    /\ Get(final_counts, P_01A123BC) = 2
    /\ \E i \in 1..Len(processed) :
         /\ P_A1234BC \in Range(Observations[i])
         /\ P_01A123BC \notin Range(Observations[i])
         /\ \E a \in 1..(i - 1), b \in (i + 1)..Len(processed) :
              /\ P_01A123BC \in Range(Observations[a])
              /\ P_01A123BC \in Range(Observations[b])

(* ---- C6 ---- *)
\* C6: stream mode: the frames read, and so the frames processed, never exceed
\* floor(fps * duration_seconds) for the rate and duration of the run (fps is
\* in quarter frames per second); at fps 30 and duration 10 that is 300.
C6_StreamFrameBudget ==
    mode = "camera" =>
        /\ 4 * frame_count <= fps * duration_seconds
        /\ 4 * Len(processed) <= fps * duration_seconds
        /\ (fps = 4 * 30 /\ duration_seconds = 10) => (frame_count <= 300 /\ total_frames = 300)

\* a stream run that stopped on a budget that is not a whole product: 0.25 fps
\* for 10 s is 2 frames
C6_Witness ==
    /\ mode = "camera" /\ pc = "returned"
    /\ fps = 1 /\ duration_seconds = 10
    /\ frame_count = 2
    /\ Len(processed) = 2

(* ---- C7 ---- *)
\* C7: in both modes the frame indices passed to detection are exactly the
\* multiples of frame_skip among the indices read so far, each once, in order.
C7_ProcessedIndices ==
    /\ {processed[i].index : i \in 1..Len(processed)} =
           {i \in 1..frame_count : i % process_every_n_frames = 0}
    /\ \A i \in 1..Len(processed), j \in 1..Len(processed) :
           i < j => processed[i].index < processed[j].index

\* a run with frame_skip 2 that read at least 5 frames and processed 2 and 4
C7_Witness ==
    /\ process_every_n_frames = 2
    /\ frame_count >= 5
    /\ Len(processed) = 2
    /\ processed[1].index = 2 /\ processed[2].index = 4

(* ---- C8 ---- *)
\* the four shapes of the plate grammar: D a digit, L a letter
Shapes ==
    { << "D", "D", "L", "D", "D", "D", "L", "L" >>,
      << "L", "D", "D", "D", "D", "L", "L" >>,
      << "L", "L", "D", "D", "D", "D", "L", "L" >>,
      << "L", "L", "D", "D", "D", "D", "D" >> }

HasShape(text, shape) ==
    /\ Len(text) = Len(shape)
    /\ \A i \in 1..Len(shape) :
         IF shape[i] = "D" THEN text[i] \in Digits
         ELSE text[i] \in UpperLetters \cup LowerLetters

InGrammar(text) == \E shape \in Shapes : HasShape(text, shape)

\* C8: in both modes every key of final_counts, every buffered sighting, every
\* tracked session and every observed plate has one of the four shapes; "AB1"
\* and the empty string are none of them.
C8_OnlyGrammarPlates ==
    /\ \A text \in DOMAIN final_counts \cup Range(current_session_plates)
                   \cup DOMAIN active_sessions
                   \cup UNION {Range(Observations[i]) : i \in 1..Len(processed)} :
          /\ InGrammar(text)
          /\ text # << "A", "B", "1" >>
          /\ text # << >>

\* a finished run that processed a frame with the candidates "AB1" and
\* "01A123BCD" and a frame with valid plates, and returned counts
C8_Witness ==
    /\ pc = "returned"
    /\ \E i \in 1..Len(processed) :
         /\ \E b \in 1..Len(processed[i].frame) :
              license_text(processed[i].frame[b]) = << "A", "B", "1" >>
         /\ \E b \in 1..Len(processed[i].frame) : license_text(processed[i].frame[b]) = << >>
         /\ \E b \in 1..Len(processed[i].frame) :
              license_text(processed[i].frame[b]) = P_01A123BC \o << "D" >>
    /\ P_01A123BC \in DOMAIN final_counts

(* ---- C9 ---- *)
\* C9: stream mode: the step that ends the read loop adds exactly 1 to the
\* count of every plate still in active_sessions, whatever its counter, and
\* leaves every other count (a plate closed before and not sighted again) alone.
C9_StreamEndClosesTracked ==
    [][(pc = "camera" /\ pc' = "returned") =>
        \A p \in Texts \cup DOMAIN final_counts' :
            Get(final_counts', p) =
                Get(final_counts, p) + (IF p \in DOMAIN active_sessions THEN 1 ELSE 0)]_vars

\* a finished stream run in which a plate was still tracked with a counter
\* above 0 and was counted, and another plate, closed earlier, kept its count 1
C9_Witness ==
    /\ mode = "camera" /\ pc = "returned"
    /\ \E p \in DOMAIN active_sessions :
         /\ active_sessions[p] > 0
         /\ Get(final_counts, p) = 1
    /\ \E q \in DOMAIN final_counts \ DOMAIN active_sessions :
         /\ final_counts[q] = 1
         /\ \E i \in 1..(Len(processed) - 1) : q \in Range(Observations[i])

(* ---- C10 ---- *)
\* C10: file mode: the step that ends the read loop adds exactly 1 for each
\* distinct plate of a non-empty buffer, whatever frames_without_plate is, and
\* changes no count when the buffer is empty.
C10_FileEndFlushesBuffer ==
    [][(pc = "video" /\ pc' = "returned") =>
        IF current_session_plates # << >>
        THEN \A p \in Texts \cup DOMAIN final_counts' :
                 Get(final_counts', p) =
                     Get(final_counts, p) + (IF p \in Range(current_session_plates) THEN 1 ELSE 0)
        ELSE final_counts' = final_counts]_vars

\* a finished file run whose buffer held a plate twice at the end, with an
\* absence counter above 0 and below the timeout, and the plate counted once
C10_Witness ==
    /\ mode = "video" /\ pc = "returned"
    /\ frames_without_plate > 0
    /\ frames_without_plate < session_timeout_frames
    /\ Cardinality({i \in 1..Len(current_session_plates) :
                       current_session_plates[i] = P_01A123BC}) >= 2
    /\ Get(final_counts, P_01A123BC) = 1

(* ---------------- PlateDetectionService: the setters ---------------- *)
\* an argument of a setter: an int, or a value of another type (a float)
AnInt(v) == [type |-> "int", val |-> v]

AFloat(v) == [type |-> "float", val |-> v]

AccuracyInputs == {-1, 0, 50, 100, 101}

FrameSkipInputs == {AnInt(v) : v \in -1..MaxSkip} \cup {AFloat(2)}

TimeoutInputs == {AnInt(v) : v \in -1..MaxTimeout} \cup {AFloat(2)}

RotationInputs == {"off", "90", "180", "270", "45"}

DurationInputs == {AnInt(0), AnInt(9), AnInt(10), AnInt(14), AFloat(12)}

\* the dict a setter returns; its message and the echo of the argument are left out
Returned(name, ok) == [op |-> name, success |-> ok, plates |-> EmptyDict]

\* 0 <= accuracy_percent <= 100 with a bound dropped
accuracy_in_range_NoUpperBound(accuracy_percent) == 0 <= accuracy_percent

\* 0 <= accuracy_percent <= 100
accuracy_in_range(accuracy_percent) == 0 <= accuracy_percent /\ accuracy_percent <= 100

\* LicensePlateDetector.update_frame_skip: the value it stores
update_frame_skip(frame_skip) == IF frame_skip < 1 THEN 1 ELSE frame_skip

\* LicensePlateDetector.update_session_timeout: the value it stores
update_session_timeout(timeout_frames) == IF timeout_frames < 1 THEN 1 ELSE timeout_frames

\* isinstance(frame_skip, int) and frame_skip >= 1, with 0 let through
frame_skip_accepted_ZeroAllowed(frame_skip) == frame_skip.type = "int" /\ frame_skip.val >= 0

\* the negation of: not isinstance(frame_skip, int) or frame_skip < 1
frame_skip_accepted(frame_skip) == frame_skip.type = "int" /\ frame_skip.val >= 1

\* the negation of: not isinstance(timeout_frames, int) or timeout_frames < 1
timeout_accepted(timeout_frames) == timeout_frames.type = "int" /\ timeout_frames.val >= 1

valid_rotations == {"off", "90", "180", "270"}

\* the negation of: not isinstance(duration_seconds, int) or duration_seconds < 10
duration_accepted(new_duration) ==
    new_duration.type = "int" /\ new_duration.val >= 10

\* PlateDetectionService.update_accuracy
UpdateAccuracy(accuracy_percent) ==
    /\ IF accuracy_in_range(accuracy_percent)
         THEN /\ confidence_threshold' = accuracy_percent
              /\ result' = Returned("update_accuracy", TRUE)
         ELSE /\ result' = Returned("update_accuracy", FALSE)
              /\ UNCHANGED confidence_threshold
    /\ UNCHANGED << config, run, rotation_setting, camera_duration, storage, inflight, detect_locals, chat, loader >>

\* PlateDetectionService.update_frame_skip
UpdateFrameSkip(frame_skip) ==
    /\ IF frame_skip_accepted(frame_skip)
         THEN /\ process_every_n_frames' = update_frame_skip(frame_skip.val)
              /\ result' = Returned("update_frame_skip", TRUE)
         ELSE /\ result' = Returned("update_frame_skip", FALSE)
              /\ UNCHANGED process_every_n_frames
    /\ UNCHANGED << session_timeout_frames, run, service_config, storage, inflight, detect_locals, chat, loader >>

\* PlateDetectionService.update_session_timeout
UpdateSessionTimeout(timeout_frames) ==
    /\ IF timeout_accepted(timeout_frames)
         THEN /\ session_timeout_frames' = update_session_timeout(timeout_frames.val)
              /\ result' = Returned("update_session_timeout", TRUE)
         ELSE /\ result' = Returned("update_session_timeout", FALSE)
              /\ UNCHANGED session_timeout_frames
    /\ UNCHANGED << process_every_n_frames, run, service_config, storage, inflight, detect_locals, chat, loader >>

\* PlateDetectionService.update_camera_rotation
UpdateCameraRotation(new_rotation) ==
    /\ IF new_rotation \in valid_rotations
         THEN /\ rotation_setting' = new_rotation
              /\ result' = Returned("update_camera_rotation", TRUE)
         ELSE /\ result' = Returned("update_camera_rotation", FALSE)
              /\ UNCHANGED rotation_setting
    /\ UNCHANGED << config, run, confidence_threshold, camera_duration, storage, inflight, detect_locals, chat, loader >>

\* PlateDetectionService.update_camera_duration
UpdateCameraDuration(new_duration) ==
    /\ IF duration_accepted(new_duration)
         THEN /\ camera_duration' = new_duration.val
              /\ result' = Returned("update_camera_duration", TRUE)
         ELSE /\ result' = Returned("update_camera_duration", FALSE)
              /\ UNCHANGED camera_duration
    /\ UNCHANGED << config, run, confidence_threshold, rotation_setting, storage, inflight, detect_locals, chat, loader >>

SetAccuracy == \E accuracy_percent \in AccuracyInputs : UpdateAccuracy(accuracy_percent)

SetFrameSkip == \E frame_skip \in FrameSkipInputs : UpdateFrameSkip(frame_skip)

SetSessionTimeout == \E timeout_frames \in TimeoutInputs : UpdateSessionTimeout(timeout_frames)

SetCameraRotation == \E new_rotation \in RotationInputs : UpdateCameraRotation(new_rotation)

SetCameraDuration == \E new_duration \in DurationInputs : UpdateCameraDuration(new_duration)

\* the state after LicensePlateDetector() and PlateDetectionService() are constructed
InitConfig ==
    /\ process_every_n_frames = 1
    /\ session_timeout_frames = 2
    /\ InitRun
    /\ InitService
    /\ InitLoaded
    /\ storage = EmptyDict
    /\ prior = storage

NextConfig ==
    \/ SetAccuracy
    \/ SetFrameSkip
    \/ SetSessionTimeout
    \/ SetCameraRotation
    \/ SetCameraDuration

\* the setters called one after another, no run active
SpecConfig == InitConfig /\ [][NextConfig]_vars

(* ---- C11 ---- *)
\* C11: update_accuracy with a value outside 0..100, update_camera_rotation with
\* a value outside {off, 90, 180, 270} and update_camera_duration with a
\* non-integer or a value < 10 each return success = False (they return, so
\* nothing is raised) and leave every configuration field as it was.
C11_RejectingSettersChangeNothing ==
    [][ /\ \A a \in AccuracyInputs :
             (a < 0 \/ a > 100) /\ UpdateAccuracy(a)
                => /\ result' = Returned("update_accuracy", FALSE)
                   /\ UNCHANGED << config, service_config >>
        /\ \A r \in RotationInputs :
             r \notin {"off", "90", "180", "270"} /\ UpdateCameraRotation(r)
                => /\ result' = Returned("update_camera_rotation", FALSE)
                   /\ UNCHANGED << config, service_config >>
        /\ \A d \in DurationInputs :
             (d.type # "int" \/ d.val < 10) /\ UpdateCameraDuration(d)
                => /\ result' = Returned("update_camera_duration", FALSE)
                   /\ UNCHANGED << config, service_config >>
      ]_vars

\* each of the three setters has rejected a value after the field it guards had
\* been set to something else than its default: here update_camera_duration
C11_Witness ==
    /\ result = Returned("update_camera_duration", FALSE)
    /\ camera_duration = 14
    /\ confidence_threshold = 50
    /\ rotation_setting = "270"

StoragePool == {EmptyDict, [p \in {P_01A123BC} |-> 2]}

\* process_video_file or process_camera_stream, by the mode of the run
ProcessName == IF mode = "video" THEN "process_video_file" ELSE "process_camera_stream"

\* add_plate that restarts the counter at 1
add_plate_Reset(data, plate) ==
    [p \in DOMAIN data \cup {plate} |-> IF p = plate THEN 1 ELSE data[p]]

\* StorageManager.add_plate: load, data[plate] = data.get(plate, 0) + 1, save
add_plate(data, plate) ==
    [p \in DOMAIN data \cup {plate} |-> IF p = plate THEN Get(data, plate) + 1 ELSE data[p]]

RECURSIVE AddTimes(_, _, _)
\* for _ in range(count): self.storage.add_plate(plate)
AddTimes(data, plate, count) ==
    IF count <= 0 THEN data ELSE AddTimes(add_plate(data, plate), plate, count - 1)

RECURSIVE AddCounts(_, _, _)
\* for plate, count in detected_counts.items(): ..., over the plates still to do
AddCounts(data, detected_counts, todo) ==
    IF todo = {} THEN data
    ELSE LET plate == CHOOSE p \in todo : TRUE
         IN  AddCounts(AddTimes(data, plate, detected_counts[plate]), detected_counts,
                       todo \ {plate})

\* the except branch with the counts of the aborted run merged all the same
StorageAfterException_Merged(data, counts) == AddCounts(data, counts, DOMAIN counts)

\* the except branch of process_video_file / process_camera_stream: no add_plate
StorageAfterException(data, counts) == data

\* process_camera_stream's own cv2.VideoCapture(camera_url) is not opened
ProcessCameraNoConnection ==
    /\ pc = "idle"
    /\ pc' = "done"
    /\ mode' = "camera"
    /\ result' = [op |-> "process_camera_stream", success |-> FALSE, plates |-> EmptyDict]
    /\ UNCHANGED << config, frame_count, final_counts, video_locals, camera_locals, processed,
                    service_config, storage, inflight, detect_locals, chat, loader >>

\* _detect_plates_in_frame raises on a frame of detect_from_video that is not skipped
VideoRaises ==
    /\ pc = "video"
    /\ frame_count < MaxFrames
    /\ ~SkipFrame(frame_count + 1, process_every_n_frames)
    /\ frame_count' = frame_count + 1
    /\ pc' = "raised"
    /\ UNCHANGED << config, mode, final_counts, video_locals, camera_locals, processed,
                    service_config, result, storage, inflight, detect_locals, chat, loader >>

\* _detect_plates_in_frame raises on a frame of detect_from_camera that is not skipped
CameraRaises ==
    /\ pc = "camera"
    /\ BudgetLeft(frame_count, total_frames)
    /\ frame_count < MaxFrames
    /\ ~SkipFrame(frame_count + 1, process_every_n_frames)
    /\ frame_count' = frame_count + 1
    /\ pc' = "raised"
    /\ UNCHANGED << config, mode, final_counts, video_locals, camera_locals, processed,
                    service_config, result, storage, inflight, detect_locals, chat, loader >>

\* the exception reaches process_video_file / process_camera_stream
ProcessFails ==
    /\ pc = "raised"
    /\ pc' = "done"
    /\ storage' = StorageAfterException(storage, final_counts)
    /\ result' = [op |-> ProcessName, success |-> FALSE, plates |-> EmptyDict]
    /\ UNCHANGED << config, mode, frame_count, final_counts, video_locals, camera_locals,
                    processed, service_config, inflight, detect_locals, chat, loader >>

\* detect_from_video / detect_from_camera returned detected_counts
ProcessReturns ==
    /\ pc = "returned"
    /\ pc' = "done"
    /\ IF final_counts = EmptyDict
         THEN UNCHANGED storage
         ELSE storage' = AddCounts(storage, final_counts, DOMAIN final_counts)
    /\ result' = [op |-> ProcessName, success |-> TRUE, plates |-> final_counts]
    /\ UNCHANGED << config, mode, frame_count, final_counts, video_locals, camera_locals,
                    processed, service_config, inflight, detect_locals, chat, loader >>

\* the frames the source of a service call delivers
ProcessPool == { << >>, << Box_01A123BC >>, << Box_A1234BC >> }

ProcessVideoFrame == VideoFrameFrom(ProcessPool, MaxFrames)

ProcessCameraFrame == CameraFrameFrom(ProcessPool, MaxFrames)

InitProcess ==
    /\ process_every_n_frames = 1
    /\ session_timeout_frames \in 1..MaxTimeout
    /\ InitRun
    /\ InitService
    /\ InitLoaded
    /\ storage \in StoragePool
    /\ prior = storage

NextProcess ==
    \/ VideoOpenFails
    \/ VideoOpen
    \/ ProcessVideoFrame
    \/ VideoRaises
    \/ VideoEnd
    \/ ProcessCameraNoConnection
    \/ CameraOpenFails
    \/ CameraOpen
    \/ ProcessCameraFrame
    \/ CameraRaises
    \/ CameraBudgetUsed
    \/ CameraEnd
    \/ ProcessFails
    \/ ProcessReturns

\* one call of process_video_file or process_camera_stream
SpecProcess == InitProcess /\ [][NextProcess]_vars

(* ---- C13 ---- *)
\* C13: when _detect_plates_in_frame raises on a processed frame the run is
\* aborted, process_video_file / process_camera_stream return success = False
\* with an empty plates mapping, and storage is what it was before the run, even
\* when final_counts already held flushed or closed sessions.
C13_AbortedRunMergesNothing ==
    [][ /\ pc \in {"idle", "video", "camera"} => storage' = storage
        /\ pc = "raised"
             => /\ pc' = "done"
                /\ result' = [op |-> ProcessName, success |-> FALSE, plates |-> EmptyDict]
                /\ storage' = storage
      ]_vars

\* a file-mode run was aborted after a session had been flushed into final_counts
C13_Witness ==
    /\ pc = "done"
    /\ mode = "video"
    /\ ~result.success
    /\ Get(final_counts, P_01A123BC) >= 1
    /\ Len(processed) >= 2
    /\ storage = [p \in {P_01A123BC} |-> 2]

(* ---- C14 ---- *)
\* C14: when the source cannot be opened, detect_from_video / detect_from_camera
\* return an empty mapping without raising and without processing a frame, and
\* the caller calls add_plate not once: storage is unchanged.
C14_OpenFailureReturnsEmpty ==
    [][ /\ pc = "idle" /\ pc' \notin {"video", "camera", "done"}
             => /\ pc' = "returned"
                /\ final_counts' = EmptyDict
                /\ processed' = << >>
                /\ frame_count' = 0
        /\ pc = "returned" /\ frame_count = 0
             => /\ pc' = "done"
                /\ result' = [op |-> ProcessName, success |-> TRUE, plates |-> EmptyDict]
                /\ storage' = storage
      ]_vars

\* a stream run that could open nothing has returned to the handler
C14_Witness ==
    /\ pc = "done"
    /\ mode = "camera"
    /\ result = [op |-> "process_camera_stream", success |-> TRUE, plates |-> EmptyDict]
    /\ frame_count = 0
    /\ total_frames = 0
    /\ storage = [p \in {P_01A123BC} |-> 2]

(* ---- C15 ---- *)
\* C15: after a run that returned FinalCounts, the persisted counter of every
\* plate of FinalCounts is its value before the merge plus FinalCounts[p], and
\* every other counter is unchanged.
C15_MergeAddsFinalCounts ==
    [][ pc = "returned"
          => /\ pc' = "done"
             /\ result' = [op |-> ProcessName, success |-> TRUE, plates |-> final_counts]
             /\ DOMAIN storage' = DOMAIN storage \cup DOMAIN final_counts
             /\ \A p \in DOMAIN storage' :
                  storage'[p] = Get(storage, p) + Get(final_counts, p)
      ]_vars

\* a plate stored twice before the run was counted twice by the run, and a
\* plate unknown before was counted once
C15_Witness ==
    /\ pc = "done"
    /\ result.success
    /\ Get(final_counts, P_01A123BC) = 2
    /\ Get(storage, P_01A123BC) = 4
    /\ Get(final_counts, P_A1234BC) = 1
    /\ Get(storage, P_A1234BC) = 1

(* ---------------- loading the models ---------------- *)
\* the configuration and the run are not touched by a step of the loading code
\* that only moves a thread
ThreadGoes(t, to) ==
    /\ thread_pc' = [thread_pc EXCEPT ![t] = to]
    /\ UNCHANGED << config, run, rotation_setting, camera_duration, result, storage, inflight,
                    detect_locals, chat >>

\* the same for a step that does not end a load
ThreadMoves(t, to) == ThreadGoes(t, to) /\ UNCHANGED load_outcome

\* start_background_loading: with self._load_lock
BackgroundLocks(t) ==
    /\ thread_pc[t] = "idle"
    /\ load_lock = "free"
    /\ load_lock' = t
    /\ ThreadMoves(t, "locked")
    /\ UNCHANGED << confidence_threshold, models_loaded, is_loading >>

\* start_background_loading: if self._is_loading or self._models_loaded: return
BackgroundChecks(t) ==
    /\ thread_pc[t] = "locked"
    /\ IF is_loading \/ models_loaded
         THEN load_lock' = "free" /\ ThreadMoves(t, "idle")
         ELSE UNCHANGED load_lock /\ ThreadMoves(t, "marking")
    /\ UNCHANGED << confidence_threshold, models_loaded, is_loading >>

\* start_background_loading: self._is_loading = True, the thread is started and
\* the lock released; t goes on as the started thread
BackgroundStarts(t) ==
    /\ thread_pc[t] = "marking"
    /\ is_loading' = TRUE
    /\ load_lock' = "free"
    /\ ThreadMoves(t, "loading")
    /\ UNCHANGED << confidence_threshold, models_loaded >>

\* _load_dependencies: if self._models_loaded: return
CallerEnters(t) ==
    /\ thread_pc[t] = "idle"
    /\ ~models_loaded
    /\ ThreadMoves(t, "waiting")
    /\ UNCHANGED << confidence_threshold, models_loaded, is_loading, load_lock >>

\* _load_dependencies: while self._is_loading: time.sleep(0.1)
CallerWaited(t) ==
    /\ thread_pc[t] = "waiting"
    /\ ~is_loading
    /\ ThreadMoves(t, "deciding")
    /\ UNCHANGED << confidence_threshold, models_loaded, is_loading, load_lock >>

\* _load_dependencies that returns without loading
CallerDecides_NoRetry(t) ==
    /\ thread_pc[t] = "deciding"
    /\ ThreadMoves(t, "idle")
    /\ UNCHANGED << confidence_threshold, models_loaded, is_loading, load_lock >>

\* _load_dependencies: if not self._models_loaded: self._sync_load_dependencies()
CallerDecides(t) ==
    /\ thread_pc[t] = "deciding"
    /\ IF ~models_loaded
         THEN ThreadMoves(t, "loading")
         ELSE ThreadMoves(t, "idle")
    /\ UNCHANGED << confidence_threshold, models_loaded, is_loading, load_lock >>

\* _sync_load_dependencies: the try block runs to its end
LoadSucceeds(t) ==
    /\ thread_pc[t] = "loading"
    /\ confidence_threshold' = 75
    /\ models_loaded' = TRUE
    /\ load_outcome' = [load_outcome EXCEPT ![t] = "ok"]
    /\ ThreadGoes(t, "finally")
    /\ UNCHANGED << is_loading, load_lock >>

\* _sync_load_dependencies: an import or a model file fails
LoadFails(t) ==
    /\ thread_pc[t] = "loading"
    /\ load_outcome' = [load_outcome EXCEPT ![t] = "error"]
    /\ ThreadGoes(t, "finally")
    /\ UNCHANGED << confidence_threshold, models_loaded, is_loading, load_lock >>

\* _sync_load_dependencies without the finally block
LoadFinally_FlagKept(t) ==
    /\ thread_pc[t] = "finally"
    /\ ThreadMoves(t, "idle")
    /\ UNCHANGED << confidence_threshold, models_loaded, is_loading, load_lock >>

\* _sync_load_dependencies: finally: self._is_loading = False
LoadFinally(t) ==
    /\ thread_pc[t] = "finally"
    /\ is_loading' = FALSE
    /\ ThreadMoves(t, "idle")
    /\ UNCHANGED << confidence_threshold, models_loaded, load_lock >>

StartBackgroundLoading ==
    \E t \in Background : BackgroundLocks(t) \/ BackgroundChecks(t) \/ BackgroundStarts(t)

LoadDependencies ==
    \E t \in Callers : CallerEnters(t) \/ CallerWaited(t) \/ CallerDecides(t)

SyncLoadDependencies ==
    \E t \in Threads : LoadSucceeds(t) \/ LoadFails(t) \/ LoadFinally(t)

\* the accuracy setter while the models are being loaded
LoaderAccuracyInputs == {50, 101}

LoaderSetAccuracy == \E accuracy_percent \in LoaderAccuracyInputs : UpdateAccuracy(accuracy_percent)

InitLoad ==
    /\ process_every_n_frames = 1
    /\ session_timeout_frames = 2
    /\ InitRun
    /\ InitService
    /\ InitLoader
    /\ storage = EmptyDict
    /\ prior = storage

NextLoad ==
    \/ StartBackgroundLoading
    \/ LoadDependencies
    \/ SyncLoadDependencies
    \/ LoaderSetAccuracy

\* /start handlers, detection threads and the accuracy setter, interleaved
SpecLoad == InitLoad /\ [][NextLoad]_vars

(* ---- C16 ---- *)
\* C16: at most one execution of _sync_load_dependencies is in progress at any
\* time, and no load starts after a load has succeeded.
C16_OneLoadAtATime ==
    [][ /\ Cardinality({t \in Threads : thread_pc'[t] \in {"loading", "finally"}}) <= 1
        /\ \A t \in Threads :
             thread_pc[t] # "loading" /\ thread_pc'[t] = "loading" => ~models_loaded
      ]_vars

(* ---- C18 ---- *)
\* C18: confidence_threshold changes only in a successful update_accuracy; model
\* loading, among the other operations, does not modify it.
C18_OnlyTheSetterChangesConfidence ==
    [][ confidence_threshold' # confidence_threshold
          => \E a \in AccuracyInputs :
               a >= 0 /\ a <= 100 /\ UpdateAccuracy(a) ]_vars

(* ---------------- setters during a run ---------------- *)
\* the frames the source of such a run delivers
LivePool == { << >>, << Box_01A123BC >> }

\* one accepted value per setter, different from the constructed one
LiveFrameSkipInputs == {AnInt(2)}

LiveTimeoutInputs == {AnInt(1)}

LiveAccuracyInputs == {50}

LiveRotationInputs == {"90"}

LiveDurationInputs == {AnInt(10)}

LiveSetAccuracy == \E accuracy_percent \in LiveAccuracyInputs : UpdateAccuracy(accuracy_percent)

LiveSetFrameSkip == \E frame_skip \in LiveFrameSkipInputs : UpdateFrameSkip(frame_skip)

LiveSetSessionTimeout ==
    \E timeout_frames \in LiveTimeoutInputs : UpdateSessionTimeout(timeout_frames)

LiveSetCameraRotation == \E new_rotation \in LiveRotationInputs : UpdateCameraRotation(new_rotation)

LiveSetCameraDuration == \E new_duration \in LiveDurationInputs : UpdateCameraDuration(new_duration)

LiveVideoFrame == VideoFrameFrom(LivePool, MaxLiveFrames)

\* process_camera_stream without duration_seconds: duration_seconds = self.camera_duration
LiveCameraOpen == CameraOpenWith({camera_duration})

LiveCameraFrame == CameraFrameFrom(LivePool, MaxLiveFrames)

NextLive ==
    \/ VideoOpen
    \/ LiveVideoFrame
    \/ VideoEnd
    \/ LiveCameraOpen
    \/ LiveCameraFrame
    \/ CameraBudgetUsed
    \/ CameraEnd
    \/ LiveSetAccuracy
    \/ LiveSetFrameSkip
    \/ LiveSetSessionTimeout
    \/ LiveSetCameraRotation
    \/ LiveSetCameraDuration

\* one run, in a worker thread, with the setters called from the event loop
SpecLive == InitConfig /\ [][NextLive]_vars

(* ---- C17 ---- *)
\* a frame is read in this step
FrameRead == pc \in {"video", "camera"} /\ frame_count' = frame_count + 1

\* the frame read in this step is handed to _detect_plates_in_frame
FrameProcessed == FrameRead /\ processed' # processed

\* the frame read in this step is skipped or processed by the current
\* frame_skip, is detected with the current confidence_threshold, and ends
\* sessions by the current session_timeout_frames
SeesFrameParameters ==
    /\ FrameRead => (FrameProcessed <=> frame_count' % process_every_n_frames = 0)
    /\ FrameProcessed =>
         LET call == processed'[Len(processed')]
             seen == Range(call.plates)
         IN  /\ call.index = frame_count'
             /\ call.conf = (IF 7 * confidence_threshold > 100
                               THEN 7 * confidence_threshold ELSE 100)
             /\ mode = "video" =>
                  (final_counts' # final_counts
                     <=> /\ seen = {}
                         /\ current_session_plates # << >>
                         /\ frames_without_plate + 1 >= session_timeout_frames)
             /\ mode = "camera" =>
                  (final_counts' # final_counts
                     <=> \E p \in DOMAIN active_sessions \ seen :
                           active_sessions[p] + 1 >= session_timeout_frames)

\* C17 as stated: a successful update during a run is visible to the later
\* frames of the run for frame_skip, session_timeout_frames,
\* confidence_threshold, rotation and stream_duration_seconds.
C17_EveryParameterLive ==
    [][ /\ SeesFrameParameters
        /\ FrameRead /\ mode = "camera" =>
             frame_count < FrameBudget(fps, camera_duration)
        /\ FrameProcessed /\ mode = "camera" =>
             processed'[Len(processed')].rotation = rotation_setting
      ]_vars

\* C17, amended: a successful update during a run is visible to the later
\* frames of the run for frame_skip, session_timeout_frames and
\* confidence_threshold; the rotation and the duration of a stream run are the
\* values at its start, whatever is set during the run.
C17_FrameParametersLive ==
    [][ /\ SeesFrameParameters
        /\ pc = "camera" =>
             /\ rotation' = rotation
             /\ duration_seconds' = duration_seconds
             /\ total_frames' = total_frames
             /\ total_frames = FrameBudget(fps, duration_seconds)
        /\ FrameRead /\ mode = "camera" => frame_count < total_frames
        /\ FrameProcessed /\ mode = "camera" =>
             processed'[Len(processed')].rotation = rotation
        /\ pc = "idle" /\ pc' = "camera" =>
             /\ rotation' = rotation_setting
             /\ duration_seconds' = camera_duration
      ]_vars

\* a stream run started with the constructed configuration; accuracy, frame
\* skip, rotation and duration were set during it: the second and third frame
\* were treated by the new accuracy and frame skip, the old rotation and the
\* old budget
C17_Witness ==
    /\ mode = "camera"
    /\ Len(processed) = 2
    /\ processed[1].index = 1 /\ processed[1].conf = 525
    /\ processed[2].index = 2 /\ processed[2].conf = 350
    /\ processed[2].rotation = "off"
    /\ frame_count = 3
    /\ process_every_n_frames = 2
    /\ rotation_setting = "90"
    /\ camera_duration = 10
    /\ duration_seconds = 60
    /\ fps = 1

StreamFrame == CameraFrameFrom(LivePool, MaxFrames)

NextStream ==
    \/ CameraOpenFails
    \/ CameraOpen
    \/ StreamFrame
    \/ CameraBudgetUsed
    \/ CameraEnd

\* detect_from_camera alone in its thread: the loop goes on as long as it can;
\* whether a read ever fails is left to the source
SpecStream ==
    /\ Init
    /\ [][NextStream]_vars
    /\ WF_vars(StreamFrame)
    /\ WF_vars(CameraBudgetUsed)

(* ---- C20 ---- *)
\* C20: a stream run returns by itself: whatever the source delivers and
\* whatever frame_skip is, the read loop ends after at most total_frames reads
\* (earlier if a read fails) and the run returns, no read of the source having
\* to fail and nothing outside having to stop it. Budgets beyond MaxFrames are
\* left out: the sources of the model end there.
C20_StreamTerminates ==
    (pc = "camera" /\ total_frames <= MaxFrames)
        ~> (pc = "returned" /\ frame_count <= total_frames)

\* a run with frame_skip 2 has read its whole budget of 3 frames, none of the
\* reads failed, and it has returned
C20_Witness ==
    /\ mode = "camera" /\ pc = "returned"
    /\ process_every_n_frames = 2
    /\ total_frames = 3
    /\ frame_count = 3
    /\ Len(processed) = 1

(* ---------------- runs with a rotation set beforehand ---------------- *)
\* update_camera_rotation between the runs
RotationSetBeforeRun == pc = "idle" /\ SetCameraRotation

NextRotation ==
    \/ RotationSetBeforeRun
    \/ VideoOpen
    \/ LiveVideoFrame
    \/ VideoEnd
    \/ CameraOpen
    \/ LiveCameraFrame
    \/ CameraBudgetUsed
    \/ CameraEnd

\* the rotation is chosen, then one run in either mode
SpecRotation == Init /\ [][NextRotation]_vars

(* ---- C21 ---- *)
\* the rotateCode applied to the frame read as number i, "none" if it was not rotated
RotationOf(i) ==
    IF \E j \in 1..Len(rotated) : rotated[j].index = i
      THEN rotated[CHOOSE j \in 1..Len(rotated) : rotated[j].index = i].code
      ELSE "none"

\* 90 is clockwise, 180 is 180, 270 is counter-clockwise, off is the identity
Turn(setting) ==
    CASE setting = "90" -> "ROTATE_90_CLOCKWISE"
      [] setting = "180" -> "ROTATE_180"
      [] setting = "270" -> "ROTATE_90_COUNTERCLOCKWISE"
      [] setting = "off" -> "none"

ProcessedIndices == {processed[i].index : i \in 1..Len(processed)}

NoDuration == [type |-> "absent", val |-> 0]

UrlDurations == {NoDuration, AnInt(0), AnInt(5), AnInt(14), [type |-> "str", val |-> 0]}

\* handlers.py 482-483: int(query_params["duration"][0]) succeeds and is > 0
url_overrides(url_duration) == url_duration.type = "int" /\ url_duration.val > 0

\* handlers.py 468-520: process_camera from the configured duration to the
\* start of detect_from_camera; an overriding URL duration is handed to
\* update_camera_duration and then used, whatever the setter returned
ProcessCamera(url_duration) ==
    IF url_overrides(url_duration)
      THEN /\ IF duration_accepted(url_duration)
                THEN /\ camera_duration' = url_duration.val
                     /\ result' = Returned("update_camera_duration", TRUE)
                ELSE /\ result' = Returned("update_camera_duration", FALSE)
                     /\ UNCHANGED camera_duration
           /\ CameraStart({url_duration.val})
      ELSE /\ CameraStart({camera_duration})
           /\ UNCHANGED << camera_duration, result >>

HandleCameraUrl == \E url_duration \in UrlDurations : ProcessCamera(url_duration)

\* the duration setting changed from the settings menu before the run
DurationSetBeforeRun == pc = "idle" /\ SetCameraDuration

NextHandler ==
    \/ DurationSetBeforeRun
    \/ HandleCameraUrl
    \/ LiveCameraFrame
    \/ CameraBudgetUsed
    \/ CameraEnd

\* the settings menu, then one camera URL sent to the bot
SpecHandler == InitConfig /\ [][NextHandler]_vars

(* ---- C22 ---- *)
\* C22: camera_duration is always >= 10 and so is the duration_seconds of every
\* stream run started through the camera handler: a duration that
\* update_camera_duration rejects is never used by a run.
C22_DurationAtLeastTen ==
    /\ camera_duration >= 10
    /\ mode = "camera" => duration_seconds >= 10

(* ---- C23 ---- *)
\* the plate texts observed in at least one processed frame
Observed == UNION {Range(Observations[i]) : i \in 1..Len(processed)}

\* C23: in both modes the keys of the mapping a run returns are exactly the
\* plates observed in at least one processed frame, and every value is >= 1.
C23_NoObservationLost ==
    pc = "returned" =>
        /\ DOMAIN final_counts = Observed
        /\ \A p \in DOMAIN final_counts : final_counts[p] >= 1

\* a stream run returned three plates: one closed by its timeout during the
\* run, the others still tracked when the loop ended
C23_Witness ==
    /\ pc = "returned" /\ mode = "camera"
    /\ Cardinality(Observed) >= 3
    /\ DOMAIN final_counts = Observed
    /\ \E p \in Observed : p \notin DOMAIN active_sessions
    /\ \E p \in Observed : p \in DOMAIN active_sessions

(* ---- C24 ---- *)
\* a frame of a file-mode run is passed to detection in this step
FileFrameProcessed == pc = "video" /\ pc' = "video" /\ processed' # processed

\* the observation of the frame processed in this step
ThisObservation == processed'[Len(processed')].plates

\* the buffer and the absence counter after this frame's update (lines 204-208)
BufferUpdated == current_session_plates \o ThisObservation

AbsenceUpdated == IF ThisObservation # << >> THEN 0 ELSE frames_without_plate + 1

\* the step counts a session: some count grows
Flushes == final_counts' # final_counts

\* C24 as stated: file mode: a processed frame flushes iff after its update the
\* absence counter is >= session_timeout_frames and the buffer is non-empty;
\* right after the flush the buffer is empty and the absence counter is 0.
C24_FlushResetsAbsence ==
    [][ FileFrameProcessed =>
          /\ Flushes <=> (AbsenceUpdated >= session_timeout_frames /\ BufferUpdated # << >>)
          /\ Flushes => (current_session_plates' = << >> /\ frames_without_plate' = 0)
      ]_vars

\* C24, amended: file mode: a processed frame flushes iff after its update the
\* absence counter is >= session_timeout_frames and the buffer is non-empty;
\* right after the flush the buffer is empty and the absence counter keeps its
\* value (it is >= session_timeout_frames, and only a non-empty observation
\* resets it).
C24_FlushKeepsAbsence ==
    [][ FileFrameProcessed =>
          /\ Flushes <=> (AbsenceUpdated >= session_timeout_frames /\ BufferUpdated # << >>)
          /\ frames_without_plate' = AbsenceUpdated
          /\ Flushes => /\ current_session_plates' = << >>
                        /\ frames_without_plate' >= session_timeout_frames
          /\ ~Flushes => current_session_plates' = BufferUpdated
      ]_vars

\* a file-mode run right after a flush that came with the second empty frame
C24_Witness ==
    /\ pc = "video"
    /\ session_timeout_frames = 2
    /\ Len(processed) >= 3
    /\ Observations[Len(processed)] = << >>
    /\ Observations[Len(processed) - 1] = << >>
    /\ Observations[Len(processed) - 2] # << >>
    /\ current_session_plates = << >>
    /\ frames_without_plate = 2
    /\ final_counts # EmptyDict

(* ---- C25 ---- *)
\* a frame of a stream-mode run is passed to detection in this step
StreamFrameProcessed == pc = "camera" /\ pc' = "camera" /\ processed' # processed

\* C25: stream mode, per processed frame with observation O: every plate of O
\* is tracked with counter 0 afterwards; every tracked plate not in O has its
\* counter increased by 1 and, in the frame in which it reaches
\* session_timeout_frames, is counted once and removed; a plate sighted after
\* its removal is tracked again with counter 0; nothing else changes.
C25_StreamFrameStep ==
    [][ StreamFrameProcessed =>
          \A p \in Texts \cup DOMAIN final_counts' \cup DOMAIN active_sessions' :
            IF p \in Range(ThisObservation)
              THEN /\ p \in DOMAIN active_sessions'
                   /\ active_sessions'[p] = 0
                   /\ Get(final_counts', p) = Get(final_counts, p)
            ELSE IF p \in DOMAIN active_sessions
              THEN IF active_sessions[p] + 1 >= session_timeout_frames
                     THEN /\ active_sessions[p] + 1 = session_timeout_frames
                          /\ p \notin DOMAIN active_sessions'
                          /\ Get(final_counts', p) = Get(final_counts, p) + 1
                     ELSE /\ p \in DOMAIN active_sessions'
                          /\ active_sessions'[p] = active_sessions[p] + 1
                          /\ Get(final_counts', p) = Get(final_counts, p)
            ELSE /\ p \notin DOMAIN active_sessions'
                 /\ Get(final_counts', p) = Get(final_counts, p)
      ]_vars

\* a plate counted and removed earlier in the run is tracked again, with
\* counter 0, next to a plate whose counter is 1
C25_Witness ==
    /\ pc = "camera"
    /\ session_timeout_frames = 2
    /\ \E p \in DOMAIN active_sessions :
         /\ active_sessions[p] = 0
         /\ Get(final_counts, p) = 1
    /\ \E q \in DOMAIN active_sessions : active_sessions[q] = 1

(* ---------------- the two trackers as functions of the observations ---------------- *)
RECURSIVE VideoFold(_, _)
\* the file-mode tracker run over a list of observations
VideoFold(obs, timeout_frames) ==
    IF obs = << >> THEN [session |-> << >>, without |-> 0, counts |-> EmptyDict]
    ELSE LET before == VideoFold(Front(obs), timeout_frames)
         IN  VideoTrack(before.session, before.without, before.counts, Last(obs),
                        timeout_frames)

\* the mapping a file-mode run returns for a list of observations
VideoResult(obs, timeout_frames) ==
    LET end == VideoFold(obs, timeout_frames)
    IN  VideoLastSession(end.counts, end.session)

\* the folds are the runs: what a finished run returned is what the fold of its
\* mode gives on the run's observations
FoldsAreRuns ==
    /\ mode = "video" => final_counts = VideoResult(Observations, session_timeout_frames)
    /\ mode = "camera" => final_counts = CameraResult(Observations, session_timeout_frames)

(* ---- C26 ---- *)
\* C26: for the observations of every finished run and its constant frame_skip
\* and session_timeout_frames, each plate's stream-mode count is >= its
\* file-mode count.
C26_StreamAtLeastFile ==
    pc = "returned" =>
        /\ FoldsAreRuns
        /\ \A p \in Texts :
             Get(CameraResult(Observations, session_timeout_frames), p)
                >= Get(VideoResult(Observations, session_timeout_frames), p)

\* a finished run on which the two differ for one plate and agree on another
C26_Witness ==
    /\ pc = "returned" /\ mode = "camera"
    /\ Len(processed) >= 3
    /\ \E p \in Texts :
         Get(final_counts, p) > Get(VideoResult(Observations, session_timeout_frames), p)
    /\ \E p \in DOMAIN final_counts :
         final_counts[p] = Get(VideoResult(Observations, session_timeout_frames), p)

(* ---- C27 ---- *)
\* C27: when at most one distinct plate text appears in the observations of a
\* run, file mode and stream mode return the same mapping.
C27_OnePlateSameMapping ==
    (pc = "returned" /\ Cardinality(Observed) <= 1) =>
        /\ FoldsAreRuns
        /\ VideoResult(Observations, session_timeout_frames)
             = CameraResult(Observations, session_timeout_frames)

\* one plate sighted, gone for the timeout, sighted again in the last frame:
\* both modes count it twice
C27_Witness ==
    /\ pc = "returned" /\ mode = "video"
    /\ Observed = {P_01A123BC}
    /\ P_01A123BC \in Range(Observations[Len(processed)])
    /\ final_counts = [p \in {P_01A123BC} |-> 2]
    /\ CameraResult(Observations, session_timeout_frames) = final_counts

(* ---- C28 ---- *)
\* spec 4.3: one passage event for each distinct string of the buffer
Emit(counts, buffer) ==
    [p \in DOMAIN counts \cup Range(buffer) |->
        IF p \in Range(buffer) THEN Get(counts, p) + 1 ELSE counts[p]]

\* spec 4.3: the file-mode state machine on one observation O; the flush clears
\* the buffer and resets absence_count to 0
SpecFileTrack(buffer, absence_count, counts, O, timeout_frames) ==
    LET absence == IF O # << >> THEN 0 ELSE absence_count + 1
        filled == buffer \o O
    IN  IF absence >= timeout_frames /\ filled # << >>
        THEN [buffer |-> << >>, absence_count |-> 0, counts |-> Emit(counts, filled)]
        ELSE [buffer |-> filled, absence_count |-> absence, counts |-> counts]

RECURSIVE SpecFileFold(_, _)
SpecFileFold(obs, timeout_frames) ==
    IF obs = << >> THEN [buffer |-> << >>, absence_count |-> 0, counts |-> EmptyDict]
    ELSE LET before == SpecFileFold(Front(obs), timeout_frames)
         IN  SpecFileTrack(before.buffer, before.absence_count, before.counts, Last(obs),
                           timeout_frames)

\* spec 4.3: at the end of the stream a non-empty buffer is flushed
SpecFileResult(obs, timeout_frames) ==
    LET end == SpecFileFold(obs, timeout_frames)
    IN  IF end.buffer # << >> THEN Emit(end.counts, end.buffer) ELSE end.counts

\* C28: the file-mode loop as coded, whose absence counter is reset only by a
\* non-empty observation, returns for every observation sequence and constant
\* timeout the mapping of the specification's state machine, which also resets
\* the counter at each flush.
C28_CodedLoopIsSpecMachine ==
    pc = "returned" =>
        /\ FoldsAreRuns
        /\ VideoResult(Observations, session_timeout_frames)
             = SpecFileResult(Observations, session_timeout_frames)

\* a file-mode run with a flush in the second frame, two more empty frames,
\* after which the coded counter is 3 and the specification's 2, and a sighting
C28_Witness ==
    /\ pc = "returned" /\ mode = "video"
    /\ session_timeout_frames = 1
    /\ Len(processed) = 5
    /\ Observations[1] # << >>
    /\ Observations[2] = << >> /\ Observations[3] = << >> /\ Observations[4] = << >>
    /\ Observations[5] # << >>
    /\ VideoFold(SubSeq(Observations, 1, 4), 1).without = 3
    /\ SpecFileFold(SubSeq(Observations, 1, 4), 1).absence_count = 2

(* ---- C29 ---- *)
\* the groups of p's sightings: a new group starts wherever two consecutive
\* sightings have at least timeout_frames processed frames between them
Groups(obs, p, timeout_frames) ==
    IF Sightings(obs, p) = {} THEN 0
    ELSE 1 + Cardinality({pair \in NextSightings(obs, p) :
                             pair[2] - pair[1] - 1 >= timeout_frames})

\* C29: stream mode, constant timeout: the final count of p is the number of
\* groups of its sightings; p is no key when it was never sighted.
C29_StreamCountsGroups ==
    (pc = "returned" /\ mode = "camera") =>
        /\ \A p \in Texts :
             Get(final_counts, p) = Groups(Observations, p, session_timeout_frames)
        /\ DOMAIN final_counts = {p \in Texts : Sightings(Observations, p) # {}}

\* a plate with three sightings in two groups, next to a plate never sighted
C29_Witness ==
    /\ pc = "returned" /\ mode = "camera"
    /\ session_timeout_frames = 2
    /\ Cardinality(Sightings(Observations, P_01A123BC)) = 3
    /\ Get(final_counts, P_01A123BC) = 2
    /\ P_A1234BC \notin DOMAIN final_counts

(* ---------------- two processing calls in flight ---------------- *)
\* the mappings detect_from_video / detect_from_camera return to the calls
CountPool ==
    { EmptyDict,
      [p \in {P_01A123BC} |-> 1],
      [p \in {P_01A123BC} |-> 2],
      [p \in {P_01A123BC, P_A1234BC} |-> 1] }

RECURSIVE AddCalls(_, _)
\* for plate, count in detected_counts.items(): for _ in range(count): the
\* plates of the add_plate calls, in the order of the calls
AddCalls(counts, todo) ==
    IF todo = {} THEN << >>
    ELSE LET plate == CHOOSE p \in todo : TRUE
         IN  [i \in 1..counts[plate] |-> plate] \o AddCalls(counts, todo \ {plate})

\* resuming a coroutine while another one is between two awaits
EventLoopFree_Preempting == TRUE

\* the event loop resumes a coroutine only when no coroutine is running: the
\* code from the end of 'await asyncio.to_thread' to the return has no await
EventLoopFree == running = "none"

\* the variables the two calls do not touch
outside_calls == << config, run, service_config, result, loader, prior, detect_locals, chat >>

\* process_video_file / process_camera_stream is called and reaches
\* 'await asyncio.to_thread(...)': detection runs in a worker thread
ProcessCalled(c) ==
    /\ EventLoopFree
    /\ call_pc[c] = "idle"
    /\ call_pc' = [call_pc EXCEPT ![c] = "detecting"]
    /\ UNCHANGED << outside_calls, storage, running, detected, pending, loaded >>

\* the worker thread's detect_from_video / detect_from_camera returns
DetectionReturns(c) ==
    /\ call_pc[c] = "detecting"
    /\ \E counts \in CountPool : detected' = [detected EXCEPT ![c] = counts]
    /\ call_pc' = [call_pc EXCEPT ![c] = "ready"]
    /\ UNCHANGED << outside_calls, storage, running, pending, loaded >>

\* the worker thread's detection raises
DetectionRaises(c) ==
    /\ call_pc[c] = "detecting"
    /\ call_pc' = [call_pc EXCEPT ![c] = "raising"]
    /\ UNCHANGED << outside_calls, storage, running, detected, pending, loaded >>

\* the event loop resumes the call with detected_counts; an empty mapping
\* leaves nothing to add
CallResumed(c) ==
    /\ EventLoopFree
    /\ call_pc[c] = "ready"
    /\ running' = c
    /\ call_pc' = [call_pc EXCEPT ![c] = "merging"]
    /\ pending' = [pending EXCEPT ![c] = AddCalls(detected[c], DOMAIN detected[c])]
    /\ UNCHANGED << outside_calls, storage, detected, loaded >>

\* the event loop resumes the call with the exception: the except branch
\* returns success False without an add_plate
CallFails(c) ==
    /\ EventLoopFree
    /\ call_pc[c] = "raising"
    /\ call_pc' = [call_pc EXCEPT ![c] = "failed"]
    /\ UNCHANGED << outside_calls, storage, running, detected, pending, loaded >>

\* add_plate: data = self._load_data()
AddPlateLoads(c) ==
    /\ call_pc[c] = "merging"
    /\ pending[c] # << >>
    /\ loaded[c] = NotLoaded
    /\ loaded' = [loaded EXCEPT ![c] = storage]
    /\ UNCHANGED << outside_calls, storage, running, call_pc, detected, pending >>

\* add_plate: data[plate] = data.get(plate, 0) + 1; self._save_data(data)
AddPlateSaves(c) ==
    /\ call_pc[c] = "merging"
    /\ loaded[c] # NotLoaded
    /\ storage' = add_plate(loaded[c], Head(pending[c]))
    /\ pending' = [pending EXCEPT ![c] = Tail(pending[c])]
    /\ loaded' = [loaded EXCEPT ![c] = NotLoaded]
    /\ UNCHANGED << outside_calls, running, call_pc, detected >>

\* the call returns success True; the event loop is free again
CallReturns(c) ==
    /\ call_pc[c] = "merging"
    /\ pending[c] = << >>
    /\ loaded[c] = NotLoaded
    /\ call_pc' = [call_pc EXCEPT ![c] = "returned"]
    /\ running' = "none"
    /\ UNCHANGED << outside_calls, storage, detected, pending, loaded >>

InitConcurrent == InitProcess

NextConcurrent ==
    \E c \in Callers :
        \/ ProcessCalled(c)
        \/ DetectionReturns(c)
        \/ DetectionRaises(c)
        \/ CallResumed(c)
        \/ CallFails(c)
        \/ AddPlateLoads(c)
        \/ AddPlateSaves(c)
        \/ CallReturns(c)

SpecConcurrent == InitConcurrent /\ [][NextConcurrent]_vars

(* ---- C30 ---- *)
\* C30: two processing calls in flight at the same time: while one call is in
\* its add_plate loop (between load and save, or between two add_plate calls)
\* the other call is in none of these steps; and when both calls have succeeded,
\* every persisted counter is its prior value plus that plate's counts of both
\* calls (no key beyond these).
C30_NoCountLost ==
    /\ \A c \in Callers :
         call_pc[c] = "merging" =>
             /\ running = c
             /\ \A d \in Callers \ {c} : call_pc[d] # "merging" /\ loaded[d] = NotLoaded
    /\ (\A c \in Callers : call_pc[c] = "returned") =>
         /\ DOMAIN storage
              = DOMAIN prior \cup UNION {DOMAIN detected[c] : c \in Callers}
         /\ \A p \in DOMAIN storage :
              storage[p] = Get(prior, p) + Get(detected["call1"], p)
                                         + Get(detected["call2"], p)

\* call1 is between load and save of its second add_plate of a plate that was
\* persisted twice before, while call2's detection has finished with the same
\* plate and waits for the event loop
C30_Witness ==
    /\ call_pc["call1"] = "merging"
    /\ detected["call1"] = [p \in {P_01A123BC} |-> 2]
    /\ Len(pending["call1"]) = 1
    /\ loaded["call1"] # NotLoaded
    /\ call_pc["call2"] = "ready"
    /\ detected["call2"] = [p \in {P_01A123BC, P_A1234BC} |-> 1]
    /\ prior = [p \in {P_01A123BC} |-> 2]
    /\ storage = [p \in {P_01A123BC} |-> 3]

(* ---- C31 ---- *)
\* C31: stream mode, constant session_timeout_frames T: between the frames of a
\* run (after every processed frame, at the start of the next one) and after the
\* loop, every plate tracked in active_sessions has a counter c with
\* 0 <= c < T, so a plate whose counter reached T is no longer tracked.
C31_TrackedCountersBelowTimeout ==
    mode = "camera" =>
        \A p \in DOMAIN active_sessions :
            /\ 0 <= active_sessions[p]
            /\ active_sessions[p] < session_timeout_frames

\* a run with timeout 2 in which one plate is tracked with counter 1 (one frame
\* from its timeout) and another was counted and is no longer tracked
C31_Witness ==
    /\ pc = "camera"
    /\ session_timeout_frames = 2
    /\ Len(processed) >= 3
    /\ \E p \in DOMAIN active_sessions : active_sessions[p] = 1
    /\ \E q \in DOMAIN final_counts : q \notin DOMAIN active_sessions

(* ---- C32 ---- *)
\* a frame of a stream-mode run is read in this step
StreamFrameRead == pc = "camera" /\ frame_count' = frame_count + 1

\* C32: stream mode, one iteration: the frame read is rotated per the run's
\* rotation while the frame counter still has its old value (no cv2.rotate call
\* for 'off'), whether the frame is then skipped or not; after the increment
\* the frame is passed to detection iff the new counter is a multiple of
\* frame_skip.
C32_RotateThenCountThenSkip ==
    [][ StreamFrameRead =>
          /\ IF rotation = "off"
               THEN rotated' = rotated
               ELSE rotated' = Append(rotated, [index |-> frame_count',
                                                code |-> Turn(rotation),
                                                count |-> frame_count'- 1])
          /\ (processed' # processed) <=> (frame_count' % process_every_n_frames = 0)
          /\ processed' # processed =>
               /\ processed' = Append(processed, Last(processed'))
               /\ Last(processed').index = frame_count'
               /\ Last(processed').rotation = rotation
      ]_vars

\* a stream run with rotation 180 and frame_skip 2 after two frames: the first
\* was rotated at counter 0 and skipped, the second rotated at counter 1 and
\* passed to detection
C32_Witness ==
    /\ pc = "camera"
    /\ rotation = "180"
    /\ process_every_n_frames = 2
    /\ frame_count = 2
    /\ rotated = << [index |-> 1, code |-> "ROTATE_180", count |-> 0],
                    [index |-> 2, code |-> "ROTATE_180", count |-> 1] >>
    /\ ProcessedIndices = {2}

(* ---------------- _detect_plates_in_frame, call by call ---------------- *)
\* plate boxes per frame
MaxBoxes == 2

\* every order in which the character model can return the boxes of s
Orders(s) ==
    { [i \in 1..Len(s) |-> s[f[i]]] :
        f \in {g \in [1..Len(s) -> 1..Len(s)] : \A i, j \in 1..Len(s) : g[i] = g[j] => i = j} }

\* three character boxes, two of them with the same x1
Box_Ties == << [cls |-> 10, x1 |-> 10], [cls |-> 11, x1 |-> 10], [cls |-> 1, x1 |-> 5] >>

Box_01A123BC_Reversed == [i \in 1..Len(Box_01A123BC) |-> Box_01A123BC[Len(Box_01A123BC) + 1 - i]]

\* what the character model can return for a crop
AssemblePool ==
    Orders(Box_AB1) \cup Orders(Box_Ties)
        \cup {Box_01A123BC, Box_01A123BC_Reversed, Box_NoChars}

\* the confidences of returned plate boxes, in 1/1000 (never below the threshold
\* passed, which is at most 700)
BoxConfidences == {700, 900}

PlateBoxes(char_pool) == {[chars |-> ch, conf |-> c] : c \in BoxConfidences, ch \in char_pool}

\* the lists of at most MaxBoxes plate boxes
FramesOf(boxes) == UNION {[1..n -> boxes] : n \in 0..MaxBoxes}

\* the loop over the boxes that keeps only the confident ones
boxes_to_process_Confident(boxes) ==
    SelectSeq([i \in 1..Len(boxes) |-> i], LAMBDA i : boxes[i].conf >= 800)

\* line 388: for i, plate in enumerate(license_plates[0].boxes): every box, in
\* the order the plate model returned them
boxes_to_process(boxes) == [i \in 1..Len(boxes) |-> i]

\* lines 366-382: adjusted_confidence is computed, the plate model is called
\* on the frame, and no boxes means return [] at once
DetectCalledFrom(pool) ==
    /\ detect_pc = "idle"
    /\ \E boxes \in pool :
         /\ license_plates' = boxes
         /\ detect_pc' = IF boxes = << >> THEN "returned" ELSE "boxes"
    /\ adjusted' = adjusted_confidence(confidence_threshold)
    /\ model_calls' = << [box |-> 0, conf |-> adjusted', model |-> "license_plate_model"] >>
    /\ detected_plates_text' = << >>
    /\ candidates' = << >>
    /\ UNCHANGED << config, run, service_config, result, storage, inflight, chat, loader >>

\* lines 388-419: one iteration of the loop over the plate boxes: the character
\* model is called on the crop, the characters are sorted and joined, and a
\* valid text is appended
CharactersRead ==
    /\ detect_pc = "boxes"
    /\ Len(candidates) < Len(boxes_to_process(license_plates))
    /\ LET i == boxes_to_process(license_plates)[Len(candidates) + 1]
           text == license_text(license_plates[i].chars)
       IN  /\ model_calls' = Append(model_calls,
                   [box |-> i, conf |-> adjusted, model |-> "character_model"])
           /\ candidates' = Append(candidates, text)
           /\ detected_plates_text' = IF is_valid_plate(text)
                                        THEN Append(detected_plates_text, text)
                                        ELSE detected_plates_text
    /\ UNCHANGED << config, run, service_config, result, storage, inflight, chat, loader,
                    detect_pc, adjusted, license_plates >>

\* line 431: the loop is over, detected_plates_text is returned
DetectReturns ==
    /\ detect_pc = "boxes"
    /\ Len(candidates) = Len(boxes_to_process(license_plates))
    /\ detect_pc' = "returned"
    /\ UNCHANGED << config, run, service_config, result, storage, inflight, chat, loader,
                    adjusted, license_plates, model_calls, detected_plates_text, candidates >>

\* the caller has the list; the locals of the call are gone
DetectDone ==
    /\ detect_pc = "returned"
    /\ detect_pc' = "idle"
    /\ adjusted' = 0
    /\ license_plates' = << >>
    /\ model_calls' = << >>
    /\ detected_plates_text' = << >>
    /\ candidates' = << >>
    /\ UNCHANGED << config, run, service_config, result, storage, inflight, chat, loader >>

AssembleCalled == DetectCalledFrom(FramesOf(PlateBoxes(AssemblePool)))

NextAssemble ==
    \/ AssembleCalled
    \/ CharactersRead
    \/ DetectReturns
    \/ DetectDone

\* _detect_plates_in_frame on frames whose crops give every order of the
\* character boxes
SpecAssemble == InitProcess /\ [][NextAssemble]_vars

(* ---- C33 ---- *)
\* the place of the k-th returned box in reading order: behind every box with a
\* smaller x1 and every earlier box with the same x1
ReadingPlace(chars, k) ==
    1 + Cardinality({j \in 1..Len(chars) :
                        \/ chars[j].x1 < chars[k].x1
                        \/ chars[j].x1 = chars[k].x1 /\ j < k})

DistinctX1(chars) == \A j, k \in 1..Len(chars) : chars[j].x1 = chars[k].x1 => j = k

\* C33: for each plate region the candidate string is the symbols of the
\* character boxes in ascending order of x1, boxes with equal x1 in returned
\* order, whatever order the model returned them in; two regions whose boxes
\* are the same set with pairwise distinct x1 give the same string.
C33_ReadingOrder ==
    /\ \A i \in 1..Len(candidates) :
         LET chars == license_plates[i].chars
         IN  /\ Len(candidates[i]) = Len(chars)
             /\ \A k \in 1..Len(chars) :
                  candidates[i][ReadingPlace(chars, k)] = character_map[chars[k].cls + 1]
    /\ \A i, j \in 1..Len(candidates) :
         LET a == license_plates[i].chars
             b == license_plates[j].chars
         IN  (DistinctX1(a) /\ Len(a) = Len(b) /\ Range(a) = Range(b))
                => candidates[i] = candidates[j]

\* a frame with the same three boxes in two different orders, neither of them
\* the reading order, both read as AB1
C33_Witness ==
    /\ detect_pc = "returned"
    /\ Len(candidates) = 2
    /\ license_plates[1].chars = Box_AB1
    /\ license_plates[2].chars # Box_AB1
    /\ Range(license_plates[2].chars) = Range(Box_AB1)
    /\ license_plates[2].chars[1].x1 > license_plates[2].chars[2].x1
    /\ candidates = << << "A", "B", "1" >>, << "A", "B", "1" >> >>

(* ---------------- _detect_plates_in_frame next to the accuracy setter ---------------- *)
\* what the character model returns for the crops of these frames
DetectCharPool == {Box_01A123BC, Box_AB1}

DetectCalled == DetectCalledFrom(FramesOf(PlateBoxes(DetectCharPool)))

\* every accuracy the bot can send, and the two next to the accepted range
FrameAccuracyInputs == -1..101

\* update_accuracy between two frames
AccuracySetBeforeFrame ==
    /\ detect_pc = "idle"
    /\ \E accuracy_percent \in FrameAccuracyInputs : UpdateAccuracy(accuracy_percent)

\* the accuracies set while a frame is in the worker thread
InFrameAccuracyInputs == {0, 100}

\* update_accuracy in the event loop while _detect_plates_in_frame is in its
\* loop over the plate boxes in the worker thread
AccuracySetInFrame ==
    /\ detect_pc = "boxes"
    /\ \E accuracy_percent \in InFrameAccuracyInputs : UpdateAccuracy(accuracy_percent)

NextDetect ==
    \/ DetectCalled
    \/ CharactersRead
    \/ DetectReturns
    \/ DetectDone
    \/ AccuracySetBeforeFrame
    \/ AccuracySetInFrame

SpecDetect == InitProcess /\ [][NextDetect]_vars

(* ---- C34 ---- *)
\* C34: the plate model is called once per frame; when it returns no boxes the
\* call returns the empty list at once and the character model is not called;
\* otherwise the character model is called exactly once for each returned box,
\* in returned order, whatever the confidences of the boxes.
C34_OneCharacterCallPerBox ==
    detect_pc # "idle" =>
        /\ model_calls[1].model = "license_plate_model"
        /\ \A j \in 2..Len(model_calls) :
             /\ model_calls[j].model = "character_model"
             /\ model_calls[j].box = j - 1
        /\ Len(model_calls) <= 1 + Len(license_plates)
        /\ license_plates = << >> =>
             /\ detect_pc = "returned"
             /\ Len(model_calls) = 1
             /\ detected_plates_text = << >>
        /\ detect_pc = "returned" => Len(model_calls) = 1 + Len(license_plates)

\* a frame with a box of confidence 0.7 that reads AB1 in front of a box of
\* confidence 0.9 that reads a valid plate: two character calls, in that order
C34_Witness ==
    /\ detect_pc = "returned"
    /\ Len(license_plates) = 2
    /\ license_plates[1] = [chars |-> Box_AB1, conf |-> 700]
    /\ license_plates[2] = [chars |-> Box_01A123BC, conf |-> 900]
    /\ Len(model_calls) = 3
    /\ model_calls[2].box = 1 /\ model_calls[3].box = 2
    /\ detected_plates_text = << P_01A123BC >>

(* ---- C35 ---- *)
\* max(0.1, 0.7 * a / 100) in 1/1000
SeventyPercentOrFloor(a) == IF 7 * a >= 100 THEN 7 * a ELSE 100

\* C35: for every accuracy a in 0..100, a call of _detect_plates_in_frame reads
\* the threshold once: adjusted_confidence = max(0.1, 0.7 * a / 100), between 0.1
\* and 0.7, and the plate call and every character call of the frame are made
\* with that value, also when the accuracy is changed during the frame.
C35_OneThresholdPerFrame ==
    [][ /\ confidence_threshold \in 0..100
        /\ (detect_pc = "idle" /\ detect_pc' # "idle") =>
               adjusted' = SeventyPercentOrFloor(confidence_threshold)
        /\ detect_pc = "boxes" => adjusted' = adjusted
        /\ detect_pc' # "idle" =>
               /\ 100 <= adjusted' /\ adjusted' <= 700
               /\ \A j \in 1..Len(model_calls') : model_calls'[j].conf = adjusted'
      ]_vars

\* a frame started at accuracy 50 whose two boxes were read after the accuracy
\* was set to 100: all three model calls were made with 0.35
C35_Witness ==
    /\ detect_pc = "returned"
    /\ confidence_threshold = 100
    /\ adjusted = 350
    /\ Len(model_calls) = 3
    /\ \A j \in 1..3 : model_calls[j].conf = 350

(* ---------------- stream runs on sources of every probed frame rate ---------------- *)
\* probed frame rates from -1 to 102 frames per second, in quarter frames per second
ProbeRange == -4..408

ProbeCameraOpen ==
    /\ CameraStartWith(ProbeRange, Durations)
    /\ UNCHANGED << camera_duration, result >>

NextProbe ==
    \/ CameraOpenFails
    \/ ProbeCameraOpen
    \/ LiveCameraFrame
    \/ CameraBudgetUsed
    \/ CameraEnd

SpecProbe == Init /\ [][NextProbe]_vars

(* ---- C36 ---- *)
\* C36: stream mode: a probed frame rate <= 0 or > 100 is replaced by 30, one
\* in (0, 100] is used unchanged, so that 0 < fps_used <= 100, and the frame
\* budget is floor(fps_used * duration_seconds).
C36_ProbedRateReplaced ==
    pc = "camera" =>
        /\ (probed_fps <= 0 \/ probed_fps > 4 * 100) => fps = 4 * 30
        /\ (0 < probed_fps /\ probed_fps <= 4 * 100) => fps = probed_fps
        /\ 0 < fps /\ fps <= 4 * 100
        /\ 4 * total_frames <= fps * duration_seconds
        /\ fps * duration_seconds < 4 * (total_frames + 1)

\* a source that reports 100.25 frames per second is read at 30 for 14 seconds:
\* the budget is 420 frames, two of them read
C36_Witness ==
    /\ pc = "camera"
    /\ probed_fps = 401
    /\ fps = 120
    /\ duration_seconds = 14
    /\ total_frames = 420
    /\ frame_count = 2

(* ---------------- loads that fail ---------------- *)
NextRetry ==
    \/ StartBackgroundLoading
    \/ LoadDependencies
    \/ SyncLoadDependencies

\* /start handlers and detection threads, interleaved
SpecRetry == InitLoad /\ [][NextRetry]_vars

(* ---- C37 ---- *)
\* C37: a load that fails leaves the loaded flag as it was (false, if no load
\* has succeeded) and its finally block sets the loading flag to false; a
\* caller of _load_dependencies that finds the models not loaded after its wait
\* runs the load itself, and returns without loading only when they are loaded.
C37_FailedLoadIsRetried ==
    [][ \A t \in Threads :
          /\ (thread_pc[t] = "loading" /\ thread_pc'[t] # "loading") =>
                 /\ thread_pc'[t] = "finally"
                 /\ load_outcome'[t] = "error" =>
                        models_loaded' = models_loaded /\ is_loading' = is_loading
          /\ (thread_pc[t] = "finally" /\ thread_pc'[t] # "finally") =>
                 /\ is_loading' = FALSE
                 /\ load_outcome[t] = "error" => models_loaded' = models_loaded
          /\ (t \in Callers /\ thread_pc[t] = "deciding" /\ thread_pc'[t] # "deciding") =>
                 IF models_loaded THEN thread_pc'[t] = "idle"
                                  ELSE thread_pc'[t] = "loading"
      ]_vars

\* the background load has failed and is over, nothing is loaded, and a
\* detection call is running the load in its own thread
C37_Witness ==
    /\ load_outcome["bg1"] = "error"
    /\ \A t \in Background : thread_pc[t] = "idle"
    /\ ~models_loaded
    /\ ~is_loading
    /\ thread_pc["call1"] = "loading"
    /\ load_outcome["call1"] = "none"
    /\ thread_pc["call2"] = "idle"

\* the same with threads that are scheduled: a load in progress ends, by
\* success or by exception, and its finally block runs; a caller in the polling
\* loop goes on polling, so it sees a loading flag that is false again and again
SpecRetryFair ==
    /\ SpecRetry
    /\ \A t \in Threads :
          /\ WF_vars(LoadSucceeds(t) \/ LoadFails(t))
          /\ WF_vars(LoadFinally(t))
    /\ \A t \in Callers : SF_vars(CallerWaited(t))

MAX_VIDEO_SIZE == 20 * 1024 * 1024

\* message.video.file_size of the videos sent to the chat
VideoSizes == {1, MAX_VIDEO_SIZE, MAX_VIDEO_SIZE + 1}

\* the last dot-separated part of file_info.file_path
Extensions == {"mp4", "MOV", "webm"}

\* str.lower() on the extensions above
lower(ext) == IF ext = "MOV" THEN "mov" ELSE ext

supported_formats == {"mp4", "avi", "mov", "mkv"}

\* utils.py 22-44 on the temporary file process_video has just written from a
\* download that passed the size check: the file exists and is not too large
validate_video_file(suffix) ==
    IF lower(suffix) \notin supported_formats
      THEN [is_valid |-> FALSE, message |-> "unsupported_format"]
      ELSE [is_valid |-> TRUE, message |-> "valid"]

\* handlers.py 213-217: the video button
video_detection_command ==
    /\ handler_pc = "idle"
    /\ fsm_state' = "waiting_for_video"
    /\ answers' = << "video_instruction" >>
    /\ UNCHANGED << handler_pc, temp_file >>
    /\ UNCHANGED << config, run, service_config, result, storage, inflight, detect_locals, loader >>

\* handlers.py 364-370: the back button
back_command ==
    /\ handler_pc = "idle"
    /\ fsm_state' = "none"
    /\ answers' = << "main_menu" >>
    /\ UNCHANGED << handler_pc, temp_file >>
    /\ UNCHANGED << config, run, service_config, result, storage, inflight, detect_locals, loader >>

\* handlers.py 642-648: a message without a video in state waiting_for_video
invalid_video ==
    /\ handler_pc = "idle"
    /\ fsm_state = "waiting_for_video"
    /\ answers' = << "send_a_video" >>
    /\ UNCHANGED << fsm_state, handler_pc, temp_file >>
    /\ UNCHANGED << config, run, service_config, result, storage, inflight, detect_locals, loader >>

\* handlers.py 373-389: process_video up to its first await inside the try;
\* a file above MAX_VIDEO_SIZE is answered and the handler returns
VideoReceived(file_size_bytes) ==
    /\ handler_pc = "idle"
    /\ fsm_state = "waiting_for_video"
    /\ IF file_size_bytes > MAX_VIDEO_SIZE
         THEN /\ answers' = << "too_large" >>
              /\ UNCHANGED handler_pc
         ELSE /\ answers' = << "processing_video" >>
              /\ handler_pc' = "download"
    /\ UNCHANGED << fsm_state, temp_file >>
    /\ UNCHANGED << config, run, service_config, result, storage, inflight, detect_locals, loader >>

process_video == \E file_size_bytes \in VideoSizes : VideoReceived(file_size_bytes)

\* handlers.py 431-436: the finally of the outer try
HandlerFinally(sent) ==
    /\ fsm_state' = "none"
    /\ answers' = sent \o << "processing_complete" >>
    /\ handler_pc' = "idle"

\* handlers.py 392-393, 428-436: get_file or download_file raises
DownloadFails ==
    /\ handler_pc = "download"
    /\ HandlerFinally(Append(answers, "download_failed"))
    /\ UNCHANGED temp_file
    /\ UNCHANGED << config, run, service_config, result, storage, inflight, detect_locals, loader >>

\* handlers.py 392-406: the download, the temporary file and its validation;
\* the return of line 404 leaves through the finally of 425-426, which removes
\* the file, and through the finally of 431-436
Downloaded(ext) ==
    /\ handler_pc = "download"
    /\ LET checked == validate_video_file(ext)
       IN  IF ~checked.is_valid
             THEN /\ HandlerFinally(Append(answers, checked.message))
                  /\ temp_file' = ""
             ELSE /\ pc = "idle"
                  /\ handler_pc' = "processing"
                  /\ temp_file' = ext
                  /\ UNCHANGED << fsm_state, answers >>
    /\ UNCHANGED << config, run, service_config, result, storage, inflight, detect_locals, loader >>

VideoDownloaded == \E ext \in Extensions : Downloaded(ext)

\* handlers.py 406: process_video_file runs while the handler awaits it
HandlerVideoOpenFails == handler_pc = "processing" /\ VideoOpenFails

HandlerVideoOpen == handler_pc = "processing" /\ VideoOpen

HandlerVideoFrame == handler_pc = "processing" /\ ProcessVideoFrame

HandlerVideoRaises == handler_pc = "processing" /\ VideoRaises

HandlerVideoEnd == handler_pc = "processing" /\ VideoEnd

HandlerProcessFails == handler_pc = "processing" /\ ProcessFails

HandlerProcessReturns == handler_pc = "processing" /\ ProcessReturns

\* handlers.py 408-418: the answer for the result of process_video_file
ResultAnswer(res) ==
    IF res.success
      THEN IF res.plates # EmptyDict THEN "detected_plates" ELSE "no_plates_found"
      ELSE "error_message"

\* handlers.py 406-418, 425-426, 431-436: process_video_file returned
ProcessingAnswered ==
    /\ handler_pc = "processing"
    /\ pc = "done"
    /\ HandlerFinally(Append(answers, ResultAnswer(result)))
    /\ temp_file' = ""
    /\ UNCHANGED << config, run, service_config, result, storage, inflight, detect_locals, loader >>

NextVideoHandler ==
    \/ video_detection_command
    \/ back_command
    \/ invalid_video
    \/ process_video
    \/ DownloadFails
    \/ VideoDownloaded
    \/ HandlerVideoOpenFails
    \/ HandlerVideoOpen
    \/ HandlerVideoFrame
    \/ HandlerVideoRaises
    \/ HandlerVideoEnd
    \/ HandlerProcessFails
    \/ HandlerProcessReturns
    \/ ProcessingAnswered

\* one chat using the video button, up to the end of its first call of
\* process_video_file
SpecVideoHandler == InitProcess /\ [][NextVideoHandler]_vars

(* ---- C39 ---- *)
\* a call of process_video has just answered that it rejects the video
VideoRejected ==
    \/ "too_large" \in Range(answers)
    \/ "unsupported_format" \in Range(answers)

\* C39: a video that process_video rejects, by the size check or by
\* validate_video_file, leaves the chat in state waiting_for_video: a step
\* that sends a rejection does not clear the FSM state
C39_RejectionKeepsState ==
    [][ (answers' # answers /\ VideoRejected')
           => fsm_state' = "waiting_for_video" ]_vars

====
